---- MODULE Spec2Model ----
(***************************************************************************)
(* ttt-cli: the local daemon (daemon.ts), the IPC client that supervises   *)
(* it (daemon-client.ts) and the callers in index.tsx, as a state machine. *)
(*                                                                         *)
(* Sockets are modelled as pairs of line streams: a client end and a       *)
(* daemon end, each with its own open/closed state.  A Node process runs   *)
(* one macrotask (I/O event, timer) at a time and drains its promise       *)
(* continuations before the next one, so the daemon's handlers that were   *)
(* started by one data event all write their responses before the daemon   *)
(* takes another event.                                                    *)
(***************************************************************************)
EXTENDS Integers, Sequences, FiniteSets, TLC

\* ---------------------------------------------------------------- bounds
MaxCalls == 2      \* calls the commands issue in one run (connect() adds its own)
MaxConns == 3      \* socket objects created in one run
MaxDaemons == 3    \* daemon processes that exist in one run
MaxStray == 1      \* response lines a peer writes that answer no request
MaxPeerLines == 3  \* lines a raw peer writes on its connection
MaxTodos == 2      \* todo ids the store generates in one run
MaxAppends == 52   \* recordUndo calls in one run of the ledger alone
MaxPops == 1       \* popUndoEntries calls in one run of the ledger alone
MaxCmds == 3       \* mutating commands in one run of the commands
MaxRuns == 2       \* mutating commands in one run of all the commands
MaxOps == 3        \* calls on the TttClient in one run of its operations
MaxReqs == 2       \* store requests the daemon receives in one run of its handlers

Clients == {"A", "B"}
CallIds == 1..(MaxCalls + 2)
ConnIds == 1..MaxConns
DaemonIds == 1..MaxDaemons

\* package.json "version", read by daemon-client.ts and by daemon.ts
CLI_VERSION == "v2"
OLD_VERSION == "v1"

\* the dispatch table of handleRequest, by what a method does to the daemon
\* store methods declared Promise<void>: the handler's result is undefined
VoidMethods == {"restoreTodo"}
StoreMethods == {"getLists", "markTodoDone"} \cup VoidMethods
KnownMethods == {"ping", "shutdown"} \cup StoreMethods
Undef == "-"

VARIABLES
    sock,      \* DaemonClient.socket per client: a connection id, 0 for null
    pending,   \* DaemonClient.pending per client: the correlation ids waiting
    calls,     \* every call() made so far; a call's index is its correlation id
    timers,    \* correlation ids whose request timeout is armed
    settled,   \* per call, the resolve/reject invocations made on its promise
    conns,     \* per socket pair: owner, daemon, both ends' state, both streams
    handling,  \* daemon handlers started and not yet answered
    daemons,   \* per daemon process: lifecycle state, version, shutdown timer
    sockFile,  \* daemon.sock: the daemon bound to the path, 0 when absent
    pidFile,   \* daemon.pid: the daemon that wrote it, 0 when absent
    verFile,   \* the version marker: the daemon that wrote it, 0 when absent
    storeOps,  \* store operations the daemon's TttClient has run
    cst,       \* per client, the position of connect() and its result
    spawned,   \* per client, the child processes spawnDaemon has started
    strays,    \* stray response lines written so far
    peerLines, \* the lines a raw peer has written on its socket so far
    ledger,    \* undo-history.json: the entries array, oldest first
    recorded,  \* recordUndo calls made so far; numbers the entries
    kept,      \* every entry recorded and not popped since, oldest first
    popped,    \* the last popUndoEntries call: its count and what it returned
    pops,      \* popUndoEntries calls made so far
    store,     \* the todos table of the TinyBase store: row per id
    snaps,     \* the store as it was before each command still in kept
    ret,       \* the last store call: its client, the id and the Todo returned
    lists,     \* the lists table of the TinyBase store: row per id
    exit,      \* the last command run: which, and whether it succeeded
    procs,     \* per CLI process writing the ledger: where it is, what it read
    command,   \* per client, the running command: its client and where it is
    api,       \* the last call on the TttClient: arguments, result, tables before
    inbox,     \* per daemon socket, the requests received and not yet handled
    running,   \* per daemon socket, the handler that has started and not finished
    served,    \* the handlers that finished, in order, with what they returned
    reader,    \* one data handler: the bytes still to arrive, its buffer, its lines
    applied    \* the mutations the daemon applied for commands, in order, each with
               \* its process, its todo, the Todo returned and its entry's number

ipcVars == <<sock, pending, calls, timers, settled, conns, handling, daemons,
             sockFile, pidFile, verFile, storeOps, cst, spawned, strays, peerLines>>
appVars == <<ledger, recorded, kept, popped, pops, store, snaps, ret, lists, exit>>
moreVars == <<procs, command, api, inbox, running, served, reader, applied>>
vars == <<ipcVars, appVars, moreVars>>

clientVars == <<sock, pending, calls, timers, settled>>
fileVars == <<sockFile, pidFile, verFile>>

\* ------------------------------------------------------ values and rows
\* JavaScript values are written as strings: "-" is a key or a cell that is
\* absent, "undefined" a key that is present with the value undefined, "" the
\* empty string, a numeral a number, "true" and "false" the booleans; string
\* cells never hold a numeral here.
\* "NaN" is what parseFloat and parseInt give for text that is no number and
\* "null" what JSON makes of it.
Undefined == "undefined"
Falsy(v) == v \in {Undef, Undefined, "", "0", "false", "NaN", "null"}
\* obj[key]
Get(v) == IF v = Undef THEN Undefined ELSE v
\* a || d
JsOr(v, d) == IF Falsy(v) THEN d ELSE v

\* the cells of a todos row that are modelled: notes stands for every
\* optional string cell, number for amount as well
Cells == {"list", "text", "notes", "number", "fiveStarRating", "done", "type"}
\* getRow of an id the table does not hold: an object with no cell
NoRow == [c \in Cells |-> Undef]
\* !row of a row getRow returned: no object is falsy
NotFoundIfEmpty(row) == \A c \in DOMAIN row : row[c] = Undef
NotFound(row) == FALSE

\* the cells of a lists row that are modelled: purpose stands for systemPrompt
\* and template, number for code
ListCells == {"name", "purpose", "backgroundColour", "icon", "number", "type"}
NoList == [c \in ListCells |-> Undef]
ListIds == {"L", "M"}
\* createList: the row it sets
CreateRow(name, o) ==
    [name |-> name, purpose |-> "", backgroundColour |-> JsOr(o.backgroundColour, "blue"),
     icon |-> JsOr(o.icon, ""), number |-> "0", type |-> JsOr(o.type, "Info")]
TodoIds == 1..MaxTodos

\* undo-history.ts
MAX_ENTRIES == 50

\* the CLI processes that may run at the same time
Procs == {1, 2}

\* a command's getData before getClient() has returned: the client it holds,
\* the TttClient.connect() calls made for it, the call it awaits
NewCommand == [pc |-> "getClient", client |-> Undef, direct |-> 0, call |-> 0,
               err |-> Undef]

\* the sockets of two clients on one daemon, and a handler that is not there
Sockets == {1, 2}
Idle == [req |-> [m |-> Undef, id |-> 0, fields |-> NoRow, items |-> <<>>],
         ops |-> <<>>, snaps |-> <<>>, pres |-> <<>>, seen |-> <<>>, err |-> Undef]
Busy(h) == h.req.m # Undef

\* no call has been made on the TttClient
NoCall == [n |-> 0, op |-> Undef, id |-> 0, fields |-> <<>>, threw |-> FALSE,
           prev |-> <<>>, store0 |-> <<>>, lists0 |-> <<>>]

\* a data handler that has read nothing
NoReader == [wire |-> <<>>, sent |-> <<>>, buffer |-> <<>>, lines |-> <<>>]

\* no command has run: the ledger file is absent and the store holds no todo
InitTables ==
    /\ ledger = <<>>
    /\ recorded = 0
    /\ kept = <<>>
    /\ popped = [count |-> 0, entries |-> <<>>]
    /\ pops = 0
    /\ store = [t \in TodoIds |-> NoRow]
    /\ snaps = <<>>
    /\ ret = [via |-> Undef, id |-> 0, todo |-> NoRow]
    /\ lists = [l \in ListIds |-> IF l = "L" THEN CreateRow("l", NoList) ELSE NoList]
    /\ exit = [cmd |-> Undef, ok |-> TRUE]
    /\ procs = [p \in Procs |-> [pc |-> "idle", op |-> Undef, history |-> <<>>]]
    /\ command = [c \in Clients |-> NewCommand]
    /\ api = NoCall
    /\ inbox = [k \in Sockets |-> <<>>]
    /\ running = [k \in Sockets |-> Idle]
    /\ served = <<>>
    /\ applied = <<>>

InitApp == InitTables /\ reader = NoReader

\* ------------------------------------------------------------- wire types
\* IpcRequest as a line; "bad" is a line JSON.parse throws on
ReqLine(id, method) == [t |-> "req", id |-> id, method |-> method]
BadLine == [t |-> "bad", id |-> 0, method |-> Undef]
\* a line that is empty after trim(): skipped before JSON.parse
BlankLine == [t |-> "blank", id |-> 0, method |-> Undef]
\* a line that is JSON but no request: null, and a value on which .id and
\* .method read as undefined (a number, a string, an array, an object without
\* them); n is the line's place among the lines written, not part of the line
NullLine(n) == [t |-> "null", id |-> n, method |-> Undef]
ValueLine(n) == [t |-> "value", id |-> n, method |-> Undefined]
\* JSON.parse(line) returned and handleRequest is called with the value
Parsed(line) == line.t \in {"req", "value", "null"}

NoResult == [tag |-> Undef, version |-> Undef]
\* a result key whose value is undefined, in the object handleRequest returns
UndefinedResult == [tag |-> "undefined", version |-> Undef]
\* IpcResponse as a line: id 0 is the id "unknown"; for is the request the
\* daemon computed the line from (0 when it computed it from none)
ResLine(id, error, result, for) ==
    [id |-> id, error |-> error, result |-> result, for |-> for]

NoConn == [client |-> Undef, daemon |-> 0, cend |-> "none", dend |-> "none",
           up |-> <<>>, down |-> <<>>]
\* a daemon process: idle is the time since lastActivity and tick the time
\* since the idle interval last fired, both in units of 30 s; code is the
\* exit code, cause the trigger that ran shutdown()
NoDaemon == [st |-> "absent", version |-> Undef, exitTimer |-> FALSE, ready |-> FALSE,
             remote |-> FALSE, idle |-> 0, tick |-> 0, code |-> Undef, cause |-> Undef]

SeqMin(S) == CHOOSE x \in S : \A y \in S : x <= y
FreeConn == IF \E k \in ConnIds : conns[k].cend = "none"
            THEN SeqMin({k \in ConnIds : conns[k].cend = "none"}) ELSE 0
FreeDaemon == IF \E d \in DaemonIds : daemons[d].st = "absent"
              THEN SeqMin({d \in DaemonIds : daemons[d].st = "absent"}) ELSE 0

\* a server that accepts connections at the socket path
Listening(d) == d # 0 /\ daemons[d].st = "ready"
Alive(d) == d # 0 /\ daemons[d].st \in {"started", "cleaned", "connected", "ready"}
\* the daemon's promise continuations are drained
NoHandlers(d) == \A h \in handling : conns[h.conn].daemon # d

\* a daemon that has bound the socket and signalled readiness
RunningDaemon(v) == [NoDaemon EXCEPT !.st = "ready", !.version = v, !.ready = TRUE,
                                      !.remote = TRUE]

\* connect() has not been called / has returned normally
NewClient == [pc |-> "idle", autoStart |-> TRUE, wait |-> 0, child |-> 0,
              err |-> Undef, first |-> Undef, mismatch |-> FALSE, log |-> <<>>]
ConnectedClient == [NewClient EXCEPT !.pc = "done", !.first = "ok"]

\* ------------------------------------------------------ DaemonClient.call
Settle(id, ev) == [settled EXCEPT ![id] = Append(@, ev)]
Event(kind, src, rid, for, res, err) ==
    [kind |-> kind, src |-> src, rid |-> rid, for |-> for, res |-> res, err |-> err]

Connected(c) == sock[c] # 0 /\ conns[sock[c]].cend = "open"

Call(c, m, user) ==
    /\ LET id == Len(calls) + 1 IN
       IF ~Connected(c)
       THEN /\ calls' = Append(calls, [client |-> c, method |-> m, conn |-> 0,
                                       user |-> user])
            /\ settled' = Settle(id, Event("reject", "call", 0, 0, NoResult,
                                           "Not connected to daemon"))
            /\ UNCHANGED <<pending, timers, conns>>
       ELSE /\ calls' = Append(calls, [client |-> c, method |-> m, conn |-> sock[c],
                                       user |-> user])
            /\ timers' = timers \cup {id}
            /\ pending' = [pending EXCEPT ![c] = @ \cup {id}]
            /\ conns' = [conns EXCEPT ![sock[c]].up = Append(@, ReqLine(id, m))]
            /\ UNCHANGED settled
    /\ UNCHANGED sock

\* a store operation a command issues once connected
UserMethods == {"getLists"}

UserCalls == Cardinality({i \in 1..Len(calls) : calls[i].user})

UserCall(c) ==
    /\ cst[c].pc = "done"
    /\ UserCalls < MaxCalls
    /\ \E m \in UserMethods : Call(c, m, TRUE)
    /\ UNCHANGED <<moreVars, appVars, handling, daemons, fileVars, storeOps, cst, spawned, strays, peerLines>>

\* this.pending.get(res.id)
LookupFirst(c, rid) == IF pending[c] # {} THEN SeqMin(pending[c]) ELSE 0
Lookup(c, rid) == IF rid \in pending[c] THEN rid ELSE 0

Truthy(s) == s # Undef /\ s # ""

\* the "data" handler of setupSocketHandlers, one line of the stream
ClientData(k) ==
    /\ conns[k].cend = "open"
    /\ conns[k].down # <<>>
    /\ LET c == conns[k].client
           res == Head(conns[k].down)
           p == Lookup(c, res.id)
       IN /\ conns' = [conns EXCEPT ![k].down = Tail(@)]
          /\ IF p # 0
             THEN /\ pending' = [pending EXCEPT ![c] = @ \ {p}]
                  /\ timers' = timers \ {p}
                  /\ settled' = IF Truthy(res.error)
                                THEN Settle(p, Event("reject", "response", res.id,
                                                     res.for, NoResult, res.error))
                                ELSE Settle(p, Event("resolve", "response", res.id,
                                                     res.for, res.result, Undef))
             ELSE UNCHANGED <<pending, timers, settled>>
    /\ UNCHANGED <<moreVars, appVars, sock, calls, handling, daemons, fileVars, storeOps, cst, spawned,
                   strays, peerLines>>

\* the setTimeout callback of call(): this.pending.delete(id); reject(...)
TimeoutKeep(P, id) == P
TimeoutDelete(P, id) == P \ {id}

RequestTimeout(id) ==
    /\ id \in timers
    /\ timers' = timers \ {id}
    /\ pending' = [pending EXCEPT ![calls[id].client] = TimeoutDelete(@, id)]
    /\ settled' = Settle(id, Event("reject", "timeout", 0, 0, NoResult,
                                   "Request timed out"))
    /\ UNCHANGED <<moreVars, appVars, sock, calls, conns, handling, daemons, fileVars, storeOps, cst,
                   spawned, strays, peerLines>>

\* disconnect(): destroy the socket, drop the reference
DestroyAll(k) ==
    [j \in ConnIds |-> IF conns[j].cend = "open"
                       THEN [conns[j] EXCEPT !.cend = "destroyed", !.down = <<>>]
                       ELSE conns[j]]
Destroy(k) == [conns EXCEPT ![k].cend = "destroyed", ![k].down = <<>>]

Disconnect(c) ==
    /\ cst[c].pc = "done"
    /\ sock[c] # 0
    /\ conns' = Destroy(sock[c])
    /\ sock' = [sock EXCEPT ![c] = 0]
    /\ UNCHANGED <<moreVars, appVars, pending, calls, timers, settled, handling, daemons, fileVars,
                   storeOps, cst, spawned, strays, peerLines>>

RECURSIVE RejectAll(_, _)
RejectAll(S, st) ==
    IF S = {} THEN st
    ELSE LET id == SeqMin(S) IN
         RejectAll(S \ {id},
                   [st EXCEPT ![id] = Append(@, Event("reject", "close", 0, 0, NoResult,
                                                      "Daemon connection closed"))])

\* the "close" handler of setupSocketHandlers: the socket was destroyed
\* locally, or the daemon's end is gone and everything it wrote was read
CloseRejectedNone(c) == {}
CloseRejected(c) == pending[c]

ClientClose(k) ==
    /\ \/ conns[k].cend = "destroyed"
       \/ conns[k].cend = "open" /\ conns[k].dend = "closed" /\ conns[k].down = <<>>
    /\ LET c == conns[k].client IN
       /\ settled' = RejectAll(CloseRejected(c), settled)
       /\ timers' = timers \ CloseRejected(c)
       /\ pending' = [pending EXCEPT ![c] = {}]
       /\ sock' = [sock EXCEPT ![c] = 0]
    /\ conns' = [conns EXCEPT ![k].cend = "closed"]
    /\ UNCHANGED <<moreVars, appVars, calls, handling, daemons, fileVars, storeOps, cst, spawned,
                   strays, peerLines>>

\* a line on the client's stream that answers no request of its own: the id
\* is one the peer chose
StrayResponse(k) ==
    /\ strays < MaxStray
    /\ conns[k].cend = "open" /\ conns[k].dend = "open"
    /\ \E id \in 0..Len(calls) :
          conns' = [conns EXCEPT ![k].down =
                       Append(@, ResLine(id, Undef, [tag |-> "stray", version |-> Undef], id))]
    /\ strays' = strays + 1
    /\ UNCHANGED <<moreVars, appVars, clientVars, handling, daemons, fileVars, storeOps, cst, spawned,
                   peerLines>>

\* -------------------------------------------------------------- daemon.ts
\* handleRequest: the response a request gets, by method
UnknownError(m) == "Unknown method: " \o m
ResponseNoDefault(d, req) ==
    ResLine(req.id, Undef,
            IF req.method = "ping" THEN [tag |-> "ping", version |-> daemons[d].version]
            ELSE IF req.method = "shutdown" THEN [tag |-> "ok", version |-> Undef]
            ELSE IF req.method \in VoidMethods THEN UndefinedResult
            ELSE IF req.method \in StoreMethods THEN [tag |-> req.method, version |-> Undef]
            ELSE NoResult,
            req.id)
Response(d, req) ==
    IF req.t = "value"
    THEN ResLine(0, UnknownError(req.method), NoResult, req.id)
    ELSE IF req.method = "ping"
    THEN ResLine(req.id, Undef, [tag |-> "ping", version |-> daemons[d].version], req.id)
    ELSE IF req.method = "shutdown"
    THEN ResLine(req.id, Undef, [tag |-> "ok", version |-> Undef], req.id)
    ELSE IF req.method \in VoidMethods
    THEN ResLine(req.id, Undef, UndefinedResult, req.id)
    ELSE IF req.method \in StoreMethods
    THEN ResLine(req.id, Undef, [tag |-> req.method, version |-> Undef], req.id)
    ELSE ResLine(req.id, UnknownError(req.method), NoResult, req.id)

InvalidJson == ResLine(0, "Invalid JSON", NoResult, 0)

\* handleRequest(null): req.method throws a TypeError inside the try, and the
\* catch clause throws another on req.id, so the promise rejects with it
NullError == "TypeError: Cannot read properties of null (reading 'id')"
Rejection(req) == ResLine(0, NullError, NoResult, req.id)
Rejects(h) == h.res.error = NullError

\* JSON.stringify(res): a key whose value is undefined is left out
Stringify(res) == [res EXCEPT !.result = IF @ = UndefinedResult THEN NoResult ELSE @]

\* socket.write from the daemon: lost when the client's end is gone
WriteDownTwice(cs, k, line) ==
    IF cs[k].cend = "open" THEN [cs EXCEPT ![k].down = Append(Append(@, line), line)] ELSE cs
WriteDown(cs, k, line) ==
    IF cs[k].cend = "open" THEN [cs EXCEPT ![k].down = Append(@, line)] ELSE cs

RECURSIVE CountIn(_, _)
CountIn(lines, S) ==
    IF lines = <<>> THEN 0
    ELSE (IF Head(lines).t = "req" /\ Head(lines).method \in S THEN 1 ELSE 0)
         + CountIn(Tail(lines), S)

WriteInvalidNone(cs, k, lines) == cs
RECURSIVE WriteInvalid(_, _, _)
WriteInvalid(cs, k, lines) ==
    IF lines = <<>> THEN cs
    ELSE WriteInvalid(IF Head(lines).t = "bad" THEN WriteDown(cs, k, InvalidJson) ELSE cs,
                      k, Tail(lines))

\* case "shutdown": setTimeout(() => shutdown(), 100)
ShutdownAtOnce(dm) == [dm EXCEPT !.st = "exited", !.code = "0"]
ArmShutdown(dm) == [dm EXCEPT !.exitTimer = TRUE]

\* a daemon on which only store methods count as activity
HandledStoreOnly(dm, lines) ==
    LET r == IF \E i \in 1..Len(lines) : lines[i].t = "req" /\ lines[i].method \in StoreMethods
             THEN [dm EXCEPT !.idle = 0] ELSE dm
    IN IF CountIn(lines, {"shutdown"}) > 0 THEN ArmShutdown(r) ELSE r

\* what the handlers started for a chunk do to the process at once: each
\* parsed request resets the idle clock, a shutdown request arms the timer
Handled(dm, lines) ==
    LET r == IF \E i \in 1..Len(lines) : Parsed(lines[i])
             THEN [dm EXCEPT !.idle = 0] ELSE dm
    IN IF CountIn(lines, {"shutdown"}) > 0 THEN ArmShutdown(r) ELSE r

\* the "data" handler of handleConnection on a chunk of n complete lines:
\* Invalid JSON is written at once, each parsed request starts handleRequest,
\* whose synchronous part (idle reset, shutdown timer, store operation) runs
\* here and whose response is written by a continuation
DaemonData(k, n) ==
    LET d == conns[k].daemon
        lines == SubSeq(conns[k].up, 1, n)
    IN /\ conns[k].dend = "open"
       /\ Alive(d)
       /\ NoHandlers(d)
       /\ n \in 1..Len(conns[k].up)
       /\ conns' = WriteInvalid([conns EXCEPT ![k].up = SubSeq(@, n + 1, Len(@))],
                                k, lines)
       /\ handling' = handling \cup
             {[conn |-> k, res |-> IF lines[i].t = "null" THEN Rejection(lines[i])
                                   ELSE Response(d, lines[i])] :
                 i \in {j \in 1..n : Parsed(lines[j])}}
       /\ storeOps' = storeOps + CountIn(lines, StoreMethods)
       /\ daemons' = [daemons EXCEPT ![d] = Handled(@, lines)]
       /\ UNCHANGED <<moreVars, appVars, clientVars, fileVars, cst, spawned, strays, peerLines>>

\* handleRequest(req).then(...): the response is written unless the socket
\* is destroyed
DaemonReply(h) ==
    /\ h \in handling
    /\ ~Rejects(h)
    /\ handling' = handling \ {h}
    /\ conns' = IF conns[h.conn].dend = "open"
                THEN WriteDown(conns, h.conn, Stringify(h.res))
                ELSE conns
    /\ UNCHANGED <<moreVars, appVars, clientVars, daemons, fileVars, storeOps, cst, spawned, strays,
                   peerLines>>

\* the daemon's end of a socket closes once the client's end is gone and
\* what the client wrote has been read; the "error" handler ignores the rest
DaemonConnEnd(k) ==
    /\ conns[k].dend = "open"
    /\ conns[k].cend \in {"destroyed", "closed"}
    /\ conns[k].up = <<>>
    /\ NoHandlers(conns[k].daemon)
    /\ conns' = [conns EXCEPT ![k].dend = "closed"]
    /\ UNCHANGED <<moreVars, appVars, clientVars, handling, daemons, fileVars, storeOps, cst, spawned,
                   strays, peerLines>>

\* process exit: every socket of the process closes, unread input is lost
ExitConns(d) ==
    [k \in ConnIds |->
        IF conns[k].daemon = d /\ conns[k].dend = "open"
        THEN [conns[k] EXCEPT !.dend = "closed", !.up = <<>>]
        ELSE conns[k]]

\* handleRequest(req).then(...) has no rejection handler: a promise that
\* rejects writes nothing, and Node reports it as an unhandled rejection,
\* which ends the process with code 1 (the default since Node 15) or only
\* prints a warning (older Node, --unhandled-rejections=warn); the daemon
\* installs no handler for it and removes no file on the way out
DaemonRejection(h, dies) ==
    LET d == conns[h.conn].daemon IN
    /\ h \in handling
    /\ Rejects(h)
    /\ IF dies
       THEN /\ daemons' = [daemons EXCEPT ![d].st = "exited", ![d].code = "1", ![d].remote = FALSE,
                                         ![d].cause = "unhandled rejection"]
            /\ conns' = ExitConns(d)
            /\ handling' = {g \in handling : conns[g.conn].daemon # d}
       ELSE /\ handling' = handling \ {h}
            /\ UNCHANGED <<daemons, conns>>
    /\ UNCHANGED <<moreVars, appVars, clientVars, fileVars, storeOps, cst, spawned, strays,
                   peerLines>>

\* try { fs.unlinkSync(path) } catch {}: the path is absent afterwards,
\* whether or not a file was there and whoever wrote it
UnlinkKeep(f) == f
Unlink(f) == 0

\* shutdown(): close the server, disconnect the remote store, unlink the
\* three files, exit 0
Shutdown(d, why) ==
    /\ daemons' = [daemons EXCEPT ![d].st = "exited", ![d].exitTimer = FALSE,
                                  ![d].remote = FALSE, ![d].code = "0",
                                  ![d].cause = why]
    /\ conns' = ExitConns(d)
    /\ handling' = {h \in handling : conns[h.conn].daemon # d}
    /\ sockFile' = Unlink(sockFile)
    /\ pidFile' = Unlink(pidFile)
    /\ verFile' = Unlink(verFile)

\* setTimeout(() => shutdown(), 100) of the shutdown request
ShutdownTimer(d) ==
    /\ Alive(d)
    /\ daemons[d].exitTimer
    /\ NoHandlers(d)
    /\ Shutdown(d, "shutdown request")
    /\ UNCHANGED <<moreVars, appVars, clientVars, storeOps, cst, spawned, strays, peerLines>>

\* ------------------------------------------------------- daemon.ts main
\* main(): unlink the stale socket file
DaemonCleanup(d) ==
    /\ daemons[d].st = "started"
    /\ daemons' = [daemons EXCEPT ![d].st = "cleaned"]
    /\ sockFile' = 0
    /\ UNCHANGED <<moreVars, appVars, clientVars, conns, handling, pidFile, verFile, storeOps, cst,
                   spawned, strays, peerLines>>

\* main(): client.connect() to the remote store; a failure reaches
\* main().catch, which exits with code 1 and removes no file
RemoteReadyEarly(dm, ok) ==
    IF ok THEN [dm EXCEPT !.st = "connected", !.remote = TRUE, !.ready = TRUE]
    ELSE [dm EXCEPT !.st = "exited", !.code = "1"]
RemoteConnected(dm, ok) ==
    IF ok THEN [dm EXCEPT !.st = "connected", !.remote = TRUE]
    ELSE [dm EXCEPT !.st = "exited", !.code = "1"]

DaemonRemote(d, ok) ==
    /\ daemons[d].st = "cleaned"
    /\ daemons' = [daemons EXCEPT ![d] = RemoteConnected(@, ok)]
    /\ UNCHANGED <<moreVars, appVars, clientVars, conns, handling, fileVars, storeOps, cst, spawned,
                   strays, peerLines>>

\* main(): server.listen(socketPath, callback). The bind succeeds when the
\* path is free, and the callback writes the PID and version files and sends
\* "ready"; a path in use raises the server's "error", which runs shutdown()
DaemonListen(d) ==
    /\ daemons[d].st = "connected"
    /\ IF sockFile = 0
       THEN /\ daemons' = [daemons EXCEPT ![d].st = "ready", ![d].ready = TRUE]
            /\ sockFile' = d
            /\ pidFile' = d
            /\ verFile' = d
            /\ UNCHANGED <<conns, handling>>
       ELSE Shutdown(d, "server error")
    /\ UNCHANGED <<moreVars, appVars, clientVars, storeOps, cst, spawned, strays, peerLines>>

\* -------------------------------------------------- DaemonClient.connect
\* connectToSocket: "connect" when a server is bound to the path, "error"
\* when none is, the 3 s timer when the server does not accept in time
CanAccept == Listening(sockFile)
ConnectOutcomes == IF CanAccept THEN {"connect", "timeout"} ELSE {"error"}

\* the "connect" handler: this.socket = socket, setupSocketHandlers()
Attach(c, k) ==
    /\ k # 0
    /\ sock' = [sock EXCEPT ![c] = k]
    /\ conns' = [conns EXCEPT ![k] = [client |-> c, daemon |-> sockFile,
                                       cend |-> "open", dend |-> "open",
                                       up |-> <<>>, down |-> <<>>]]

\* spawnDaemon(): a detached child running daemon.js of this package; a
\* child of 0 is a spawn that failed (the child's "error" event)
SpawnDaemon(c, next, ok) ==
    LET d == IF ok THEN FreeDaemon ELSE 0 IN
    /\ ok => d # 0
    /\ daemons' = IF ok
                  THEN [daemons EXCEPT ![d] = [NoDaemon EXCEPT !.st = "started",
                                                                !.version = CLI_VERSION]]
                  ELSE daemons
    /\ spawned' = [spawned EXCEPT ![c] = IF ok THEN @ \cup {d} ELSE @]
    /\ cst' = [cst EXCEPT ![c].pc = next, ![c].child = d, ![c].wait = 0,
                           ![c].first = IF @ = Undef THEN "fail" ELSE @,
                           ![c].log = IF next = "waitSpawnA"
                                      THEN @ \o <<"delay", "spawn">> ELSE @]

\* the catch of connect(): without autoStart the error is replaced by
\* "Daemon is not running"; with it, control falls through to spawnDaemon()
CaughtAlwaysSpawn(c) == \E ok \in BOOLEAN : SpawnDaemon(c, "waitSpawnB", ok)
Caught(c) ==
    IF ~cst[c].autoStart
    THEN /\ cst' = [cst EXCEPT ![c].pc = "failed", ![c].err = "Daemon is not running",
                                ![c].first = IF @ = Undef THEN "fail" ELSE @,
                                ![c].wait = 0, ![c].child = 0]
         /\ UNCHANGED <<daemons, spawned>>
    ELSE \E ok \in BOOLEAN : SpawnDaemon(c, "waitSpawnB", ok)

Fail(c, e) ==
    cst' = [cst EXCEPT ![c].pc = "failed", ![c].err = e, ![c].wait = 0, ![c].child = 0]

\* connect(options) is called: connectToSocket(socketPath) is started
ConnectBegin(c, auto) ==
    /\ cst[c].pc = "idle"
    /\ cst' = [cst EXCEPT ![c].pc = "sock1", ![c].autoStart = auto]
    /\ UNCHANGED <<moreVars, appVars, clientVars, conns, handling, daemons, fileVars, storeOps, spawned,
                   strays, peerLines>>

\* the first connectToSocket settles (line 40); a failure goes to the catch
FirstConnect(c) ==
    /\ cst[c].pc = "sock1"
    /\ \E o \in ConnectOutcomes :
          IF o = "connect"
          THEN /\ Attach(c, FreeConn)
               /\ cst' = [cst EXCEPT ![c].pc = "ping", ![c].first = "ok"]
               /\ UNCHANGED <<daemons, spawned>>
          ELSE /\ Caught(c)
               /\ UNCHANGED <<sock, conns>>
    /\ UNCHANGED <<moreVars, appVars, pending, calls, timers, settled, handling, fileVars, storeOps,
                   strays, peerLines>>

\* const info = await this.ping() is issued (line 43)
IssuePing(c) ==
    /\ cst[c].pc = "ping"
    /\ Call(c, "ping", FALSE)
    /\ cst' = [cst EXCEPT ![c].pc = "waitPing", ![c].wait = Len(calls) + 1]
    /\ UNCHANGED <<moreVars, appVars, handling, daemons, fileVars, storeOps, spawned, strays, peerLines>>

\* info.version && info.version !== CLI_VERSION
MismatchNever(v) == FALSE
Mismatch(v) == Truthy(v) /\ v # CLI_VERSION

\* the ping settles: a matching version returns, a mismatch issues
\* shutdown() (line 46), a rejection goes to the catch
PingDone(c) ==
    /\ cst[c].pc = "waitPing"
    /\ settled[cst[c].wait] # <<>>
    /\ LET e == settled[cst[c].wait][1] IN
       IF e.kind = "resolve"
       THEN IF Mismatch(e.res.version)
            THEN /\ Call(c, "shutdown", FALSE)
                 /\ cst' = [cst EXCEPT ![c].pc = "waitShutdown", ![c].mismatch = TRUE,
                                       ![c].wait = Len(calls) + 1,
                                       ![c].log = Append(@, "shutdown")]
                 /\ UNCHANGED <<daemons, spawned>>
            ELSE /\ cst' = [cst EXCEPT ![c].pc = "done", ![c].wait = 0]
                 /\ UNCHANGED <<clientVars, conns, daemons, spawned>>
       ELSE /\ Caught(c)
            /\ UNCHANGED <<clientVars, conns>>
    /\ UNCHANGED <<moreVars, appVars, handling, fileVars, storeOps, strays, peerLines>>

\* shutdown() settles either way (its catch swallows a rejection), then
\* disconnect() runs (line 47) and the 100 ms delay starts (line 50)
ShutdownDone(c) ==
    /\ cst[c].pc = "waitShutdown"
    /\ settled[cst[c].wait] # <<>>
    /\ IF sock[c] # 0
       THEN /\ conns' = Destroy(sock[c])
            /\ sock' = [sock EXCEPT ![c] = 0]
       ELSE UNCHANGED <<sock, conns>>
    /\ cst' = [cst EXCEPT ![c].pc = "delay", ![c].wait = 0,
                          ![c].log = Append(@, "disconnect")]
    /\ UNCHANGED <<moreVars, appVars, pending, calls, timers, settled, handling, daemons, fileVars,
                   storeOps, spawned, strays, peerLines>>

\* the delay ends and spawnDaemon() is called (line 52)
DelayDone(c) ==
    /\ cst[c].pc = "delay"
    /\ \E ok \in BOOLEAN :
          SpawnDaemon(c, "waitSpawnA", ok)
    /\ UNCHANGED <<moreVars, appVars, clientVars, conns, handling, fileVars, storeOps, strays, peerLines>>

Waiting(c) == cst[c].pc \in {"waitSpawnA", "waitSpawnB"}

\* spawnDaemon's "message" handler: "ready" resolves, and connect() goes on
\* to connectToSocket (line 53 or 61)
SpawnReady(c) ==
    /\ Waiting(c)
    /\ cst[c].child # 0
    /\ daemons[cst[c].child].ready
    /\ cst' = [cst EXCEPT ![c].pc = IF @ = "waitSpawnA" THEN "sock2" ELSE "sock3",
                          ![c].child = 0]
    /\ UNCHANGED <<moreVars, appVars, clientVars, conns, handling, daemons, fileVars, storeOps, spawned,
                   strays, peerLines>>

\* a rejection of spawnDaemon(): inside the try it goes to the catch, after
\* the catch it is connect()'s error
SpawnRejectedLost(c, e) == UNCHANGED <<cst, daemons, spawned>>
SpawnRejected(c, e) ==
    IF cst[c].pc = "waitSpawnA"
    THEN Caught(c)
    ELSE Fail(c, e) /\ UNCHANGED <<daemons, spawned>>

\* spawnDaemon's SPAWN_TIMEOUT_MS timer: the listeners are removed, the
\* child is left running
SpawnTimeout(c) ==
    /\ Waiting(c)
    /\ cst[c].child # 0
    /\ SpawnRejected(c, "Daemon spawn timeout")
    /\ UNCHANGED <<moreVars, appVars, clientVars, conns, handling, fileVars, storeOps, strays, peerLines>>

\* spawnDaemon's "exit" handler
SpawnExit(c) ==
    /\ Waiting(c)
    /\ cst[c].child # 0
    /\ daemons[cst[c].child].st = "exited"
    /\ SpawnRejected(c, "Daemon exited during startup")
    /\ UNCHANGED <<moreVars, appVars, clientVars, conns, handling, fileVars, storeOps, strays, peerLines>>

\* spawnDaemon's "error" handler: the child could not be started
SpawnError(c) ==
    /\ Waiting(c)
    /\ cst[c].child = 0
    /\ SpawnRejected(c, "Failed to spawn daemon")
    /\ UNCHANGED <<moreVars, appVars, clientVars, conns, handling, fileVars, storeOps, strays, peerLines>>

\* connectToSocket after a spawn settles: line 53 is inside the try, line 61
\* is not
Reconnect(c) ==
    /\ cst[c].pc \in {"sock2", "sock3"}
    /\ \E o \in ConnectOutcomes :
          IF o = "connect"
          THEN /\ Attach(c, FreeConn)
               /\ cst' = [cst EXCEPT ![c].pc = "done",
                                     ![c].log = IF cst[c].pc = "sock2"
                                                THEN Append(@, "connect") ELSE @]
               /\ UNCHANGED <<daemons, spawned>>
          ELSE /\ IF cst[c].pc = "sock2"
                  THEN Caught(c)
                  ELSE /\ Fail(c, IF o = "timeout" THEN "Socket connect timeout"
                                  ELSE "connect failed")
                       /\ UNCHANGED <<daemons, spawned>>
               /\ UNCHANGED <<sock, conns>>
    /\ UNCHANGED <<moreVars, appVars, pending, calls, timers, settled, handling, fileVars, storeOps,
                   strays, peerLines>>

\* daemon.ping() of the daemon start and daemon status commands
UserPing(c) ==
    /\ cst[c].pc = "done"
    /\ UserCalls < MaxCalls
    /\ Call(c, "ping", TRUE)
    /\ UNCHANGED <<moreVars, appVars, handling, daemons, fileVars, storeOps, cst, spawned, strays, peerLines>>

\* ------------------------------------------------- requests on one socket
\* Client A has completed connect() against a running daemon.
InitRpc ==
    /\ InitApp
    /\ sock = [c \in Clients |-> IF c = "A" THEN 1 ELSE 0]
    /\ pending = [c \in Clients |-> {}]
    /\ calls = <<>>
    /\ timers = {}
    /\ settled = [i \in CallIds |-> <<>>]
    /\ conns = [k \in ConnIds |->
                  IF k = 1 THEN [client |-> "A", daemon |-> 1, cend |-> "open",
                                 dend |-> "open", up |-> <<>>, down |-> <<>>]
                  ELSE NoConn]
    /\ handling = {}
    /\ daemons = [d \in DaemonIds |->
                    IF d = 1 THEN RunningDaemon(CLI_VERSION) ELSE NoDaemon]
    /\ sockFile = 1 /\ pidFile = 1 /\ verFile = 1
    /\ storeOps = 0
    /\ cst = [c \in Clients |-> IF c = "A" THEN ConnectedClient ELSE NewClient]
    /\ spawned = [c \in Clients |-> {}]
    /\ strays = 0
    /\ peerLines = <<>>

\* daemon.shutdown(), as the daemon stop command issues it once connected
UserShutdown(c) ==
    /\ cst[c].pc = "done"
    /\ UserCalls < MaxCalls
    /\ Call(c, "shutdown", TRUE)
    /\ UNCHANGED <<moreVars, appVars, handling, daemons, fileVars, storeOps, cst, spawned, strays, peerLines>>

\* the client's calls and the daemon that serves them
NextServe ==
    \/ \E c \in Clients : UserCall(c)
    \/ \E c \in Clients : UserShutdown(c)
    \/ \E k \in ConnIds : ClientData(k)
    \/ \E id \in CallIds : RequestTimeout(id)
    \/ \E c \in Clients : Disconnect(c)
    \/ \E k \in ConnIds : ClientClose(k)
    \/ \E k \in ConnIds : \E n \in 1..Len(conns[k].up) : DaemonData(k, n)
    \/ \E h \in handling : DaemonReply(h)
    \/ \E k \in ConnIds : DaemonConnEnd(k)
    \/ \E d \in DaemonIds : ShutdownTimer(d)

NextRpc ==
    \/ NextServe
    \/ \E k \in ConnIds : StrayResponse(k)

SpecRpc == InitRpc /\ [][NextRpc]_vars

\* setTimeout callbacks run: a request timer that stays armed fires
FairRpc == InitRpc /\ [][NextServe]_vars
              /\ \A id \in CallIds : WF_vars(RequestTimeout(id))

\* ----------------------------------------------- two clients, one daemon
\* Two CLI invocations have completed connect() against the same daemon.
InitTwo ==
    /\ InitApp
    /\ sock = [c \in Clients |-> IF c = "A" THEN 1 ELSE 2]
    /\ pending = [c \in Clients |-> {}]
    /\ calls = <<>>
    /\ timers = {}
    /\ settled = [i \in CallIds |-> <<>>]
    /\ conns = [k \in ConnIds |->
                  IF k \in {1, 2}
                  THEN [client |-> IF k = 1 THEN "A" ELSE "B", daemon |-> 1,
                        cend |-> "open", dend |-> "open", up |-> <<>>, down |-> <<>>]
                  ELSE NoConn]
    /\ handling = {}
    /\ daemons = [d \in DaemonIds |->
                    IF d = 1 THEN RunningDaemon(CLI_VERSION) ELSE NoDaemon]
    /\ sockFile = 1 /\ pidFile = 1 /\ verFile = 1
    /\ storeOps = 0
    /\ cst = [c \in Clients |-> ConnectedClient]
    /\ spawned = [c \in Clients |-> {}]
    /\ strays = 0
    /\ peerLines = <<>>

SpecTwo == InitTwo /\ [][NextServe]_vars

\* ------------------------------------------- a raw peer on one socket
\* A process other than DaemonClient is connected to a running daemon and
\* writes lines of its own choosing; it leaves the responses unread.
InitPeer ==
    /\ InitApp
    /\ sock = [c \in Clients |-> 0]
    /\ pending = [c \in Clients |-> {}]
    /\ calls = <<>>
    /\ timers = {}
    /\ settled = [i \in CallIds |-> <<>>]
    /\ conns = [k \in ConnIds |->
                  IF k = 1
                  THEN [client |-> "peer", daemon |-> 1, cend |-> "open",
                        dend |-> "open", up |-> <<>>, down |-> <<>>]
                  ELSE NoConn]
    /\ handling = {}
    /\ daemons = [d \in DaemonIds |->
                    IF d = 1 THEN RunningDaemon(CLI_VERSION) ELSE NoDaemon]
    /\ sockFile = 1 /\ pidFile = 1 /\ verFile = 1
    /\ storeOps = 0
    /\ cst = [c \in Clients |-> NewClient]
    /\ spawned = [c \in Clients |-> {}]
    /\ strays = 0
    /\ peerLines = <<>>

PeerMethods == {"getLists", "restoreTodo", "ping", "bogus"}

\* the input of handleConnection's "data" handler: one more complete line
PeerSend(k) ==
    /\ conns[k].client = "peer" /\ conns[k].cend = "open"
    /\ Len(peerLines) < MaxPeerLines
    /\ \E line \in {ReqLine(Len(peerLines) + 1, m) : m \in PeerMethods}
                    \cup {BadLine, BlankLine} :
          /\ conns' = [conns EXCEPT ![k].up = Append(@, line)]
          /\ peerLines' = Append(peerLines, line)
    /\ UNCHANGED <<moreVars, appVars, clientVars, handling, daemons, fileVars, storeOps, cst, spawned,
                   strays>>

NextPeer ==
    \/ \E k \in ConnIds : PeerSend(k)
    \/ \E k \in ConnIds : \E n \in 1..Len(conns[k].up) : DaemonData(k, n)
    \/ \E h \in handling : DaemonReply(h)

SpecPeer == InitPeer /\ [][NextPeer]_vars

\* ------------------------------------------------------ connect() alone
\* Client A has not connected yet. The socket path has no daemon, a daemon
\* of this or of an earlier version, or the files of a daemon that was killed.
InitConn ==
    /\ InitApp
    /\ sock = [c \in Clients |-> 0]
    /\ pending = [c \in Clients |-> {}]
    /\ calls = <<>>
    /\ timers = {}
    /\ settled = [i \in CallIds |-> <<>>]
    /\ conns = [k \in ConnIds |-> NoConn]
    /\ handling = {}
    /\ \E d1 \in {NoDaemon, RunningDaemon(CLI_VERSION), RunningDaemon(OLD_VERSION),
                   [RunningDaemon(OLD_VERSION) EXCEPT !.st = "exited", !.remote = FALSE]} :
          /\ daemons = [d \in DaemonIds |-> IF d = 1 THEN d1 ELSE NoDaemon]
          /\ sockFile = (IF d1.st = "absent" THEN 0 ELSE 1)
          /\ pidFile = sockFile
          /\ verFile = sockFile
    /\ storeOps = 0
    /\ cst = [c \in Clients |-> NewClient]
    /\ spawned = [c \in Clients |-> {}]
    /\ strays = 0
    /\ peerLines = <<>>

NextConn ==
    \/ \E auto \in BOOLEAN : ConnectBegin("A", auto)
    \/ FirstConnect("A")
    \/ IssuePing("A")
    \/ PingDone("A")
    \/ ShutdownDone("A")
    \/ DelayDone("A")
    \/ SpawnReady("A")
    \/ SpawnTimeout("A")
    \/ SpawnExit("A")
    \/ SpawnError("A")
    \/ Reconnect("A")
    \/ UserPing("A")
    \/ \E d \in DaemonIds : DaemonCleanup(d)
    \/ \E d \in DaemonIds, ok \in BOOLEAN : DaemonRemote(d, ok)
    \/ \E d \in DaemonIds : DaemonListen(d)
    \/ \E k \in ConnIds : ClientData(k)
    \/ \E id \in CallIds : RequestTimeout(id)
    \/ \E k \in ConnIds : ClientClose(k)
    \/ \E k \in ConnIds : \E n \in 1..Len(conns[k].up) : DaemonData(k, n)
    \/ \E h \in handling : DaemonReply(h)
    \/ \E k \in ConnIds : DaemonConnEnd(k)
    \/ \E d \in DaemonIds : ShutdownTimer(d)

SpecConn == InitConn /\ [][NextConn]_vars

\* the spawn timer fires, a failed spawn emits "error", and connectToSocket
\* settles (connect, error or its own 3 s timer)
FairConn == SpecConn /\ WF_vars(SpawnTimeout("A")) /\ WF_vars(SpawnError("A"))
                     /\ WF_vars(Reconnect("A"))

\* ------------------------------------------------------------------ C1
\* C1: a response settles the call whose correlation id it carries, whatever
\* the order the daemon answers in, and a call resolved by the daemon gets the
\* result the daemon computed for its own request.
ExpectedTag(m) == IF m = "shutdown" THEN "ok" ELSE m
C1_RoutedById ==
    \A i \in 1..Len(calls) : \A j \in 1..Len(settled[i]) :
        LET e == settled[i][j] IN
        e.src = "response" =>
            /\ e.rid = i
            /\ e.for = i
            /\ (e.kind = "resolve" /\ e.res.tag # "stray"
                   => e.res.tag = ExpectedTag(calls[i].method))

\* two requests in flight, the second answered first and resolved, the first
\* still waiting with its own response behind it on the stream
C1_Witness ==
    /\ Len(calls) >= 2
    /\ calls[1].conn = 1 /\ calls[2].conn = 1
    /\ 1 \in pending["A"]
    /\ Len(settled[2]) = 1 /\ settled[2][1].src = "response" /\ settled[2][1].for = 2
    /\ conns[1].down # <<>> /\ Head(conns[1].down).for = 1
    /\ strays = 0

\* ------------------------------------------------------------------ C2
\* C2: a call's promise callbacks are invoked at most once, a response line
\* settles at most one call, and a line whose id is not pending changes
\* nothing of the client but the stream it was read from.
C2_Grown == {i \in CallIds : Len(settled'[i]) > Len(settled[i])}
C2_LineRead(k) ==
    /\ conns[k].cend = "open" /\ conns'[k].cend = "open"
    /\ conns[k].down # <<>> /\ conns'[k].down = Tail(conns[k].down)
C2_SettlesOnce ==
    /\ [](\A i \in CallIds : Len(settled[i]) <= 1)
    /\ [][\A k \in ConnIds : C2_LineRead(k) =>
            /\ Cardinality(C2_Grown) <= 1
            /\ (Head(conns[k].down).id \notin pending[conns[k].client]
                  => UNCHANGED <<sock, pending, calls, timers, settled>>)]_vars

\* call 1 timed out, the daemon answered it afterwards and the client has
\* read that line: the call still has its one settlement
C2_Witness ==
    /\ Len(calls) = 1 /\ calls[1].method = "getLists"
    /\ Len(settled[1]) = 1 /\ settled[1][1].src = "timeout"
    /\ storeOps = 1 /\ handling = {} /\ strays = 0
    /\ conns[1].cend = "open" /\ conns[1].dend = "open"
    /\ conns[1].up = <<>> /\ conns[1].down = <<>>

\* ------------------------------------------------------------------ C3
\* C3: the step in which a socket's close handler runs rejects every call
\* that was pending with "Daemon connection closed" and leaves the client
\* with no pending call and no socket.
C3_Closes(k) == conns[k].cend # "closed" /\ conns'[k].cend = "closed"
C3_CloseRejectsAll ==
    [][\A k \in ConnIds : C3_Closes(k) =>
          LET c == conns[k].client IN
          /\ pending'[c] = {}
          /\ sock'[c] = 0
          /\ \A i \in pending[c] :
                /\ Len(settled'[i]) = Len(settled[i]) + 1
                /\ settled'[i][Len(settled'[i])].kind = "reject"
                /\ settled'[i][Len(settled'[i])].err = "Daemon connection closed"
                /\ i \notin timers']_vars

\* the daemon has shut down with a call in flight, which the close rejected
C3_Witness ==
    /\ daemons[1].st = "exited"
    /\ conns[1].cend = "closed"
    /\ \E i \in 1..Len(calls) :
          Len(settled[i]) = 1 /\ settled[i][1].src = "close"

\* ------------------------------------------------------------------ C4
\* C4: a call written on a connected socket is eventually settled and out of
\* the pending map: response, close or the request timer ends the wait.
C4_CallSettles ==
    \A i \in CallIds :
        (i \in timers) ~>
            (/\ i \notin timers
             /\ Len(settled[i]) = 1
             /\ \A c \in Clients : i \notin pending[c])

\* a call that nothing answered and no close ended: its timer failed it
C4_Witness ==
    /\ Len(calls) >= 1 /\ calls[1].conn = 1
    /\ Len(settled[1]) = 1 /\ settled[1][1].err = "Request timed out"
    /\ 1 \notin pending["A"] /\ 1 \notin timers
    /\ conns[1].cend = "open" /\ conns[1].dend = "open"
    /\ Len(conns[1].up) >= 1 /\ Head(conns[1].up).id = 1

\* ------------------------------------------------------------------ C5
\* C5 as stated: once the ping has shown another version, connect() does not
\* end in an error.
C5_NeverFails == \A c \in Clients : cst[c].mismatch => cst[c].pc # "failed"

RecycleSteps == <<"shutdown", "disconnect", "delay", "spawn", "connect">>
SpawnErrors == {"Daemon spawn timeout", "Daemon exited during startup",
                "Failed to spawn daemon", "Socket connect timeout", "connect failed"}

\* C5 (amended): after a mismatch connect() runs shutdown, disconnect, the
\* delay, spawnDaemon and connectToSocket in that order; when that reconnect
\* succeeds connect() returns normally; however connect() returns, the socket
\* it leaves is to a daemon of the client's version and a later ping reports
\* that version; when the respawn or reconnect fails, connect() fails with
\* "Daemon is not running" without autoStart and otherwise with the error of
\* one further spawn-and-connect attempt.
C5_Recycles ==
    \A c \in Clients :
        LET st == cst[c] IN
        /\ st.log = SubSeq(RecycleSteps, 1, Len(st.log))
        /\ (st.log # <<>>) = st.mismatch
        /\ Len(st.log) = Len(RecycleSteps) => st.pc = "done" /\ st.err = Undef
        /\ (st.pc = "done" /\ sock[c] # 0)
              => daemons[conns[sock[c]].daemon].version = CLI_VERSION
        /\ \A i \in 1..Len(calls) :
              (calls[i].client = c /\ calls[i].user /\ calls[i].method = "ping"
                 /\ settled[i] # <<>> /\ settled[i][1].kind = "resolve")
              => settled[i][1].res.version = CLI_VERSION
        /\ (st.mismatch /\ st.pc = "failed")
              => IF st.autoStart THEN st.err \in SpawnErrors
                 ELSE st.err = "Daemon is not running"

\* the whole recycle ran and a ping after it was answered by the new daemon
C5_Witness ==
    /\ cst["A"].pc = "done" /\ cst["A"].log = RecycleSteps
    /\ daemons[1].version = OLD_VERSION /\ daemons[1].st = "exited"
    /\ \E i \in 1..Len(calls) :
          /\ calls[i].user /\ calls[i].method = "ping"
          /\ settled[i] # <<>> /\ settled[i][1].kind = "resolve"
          /\ settled[i][1].res.version = CLI_VERSION

\* ------------------------------------------------------------------ C6
\* C6: once connect() waits for the daemon it spawned after its catch, it
\* leaves that wait: by "ready" to the final connectToSocket, or to a failed
\* connect() whose error is the spawn timeout when the child was still
\* starting, the exit error only when the child has exited, the spawn error
\* when no child started; and connect() then ends.
C6_Leaves(c) == cst[c].pc = "waitSpawnB" /\ cst'[c].pc # "waitSpawnB"
C6_SpawnFails ==
    /\ [][\A c \in Clients : C6_Leaves(c) =>
            LET d == cst[c].child IN
            \/ cst'[c].pc = "sock3" /\ d # 0 /\ daemons[d].ready
            \/ /\ cst'[c].pc = "failed"
               /\ cst'[c].err \in {"Daemon spawn timeout", "Daemon exited during startup",
                                   "Failed to spawn daemon"}
               /\ cst'[c].err = "Failed to spawn daemon" <=> d = 0
               /\ cst'[c].err = "Daemon exited during startup"
                     => daemons[d].st = "exited"
               /\ (d # 0 /\ daemons[d].st # "exited")
                     => cst'[c].err = "Daemon spawn timeout"]_vars
    /\ \A c \in Clients :
          (cst[c].pc = "waitSpawnB") ~> (cst[c].pc \in {"done", "failed"})

\* no daemon was running, the spawned one is still starting and has sent
\* nothing, and connect() has failed with the spawn timeout
C6_Witness ==
    /\ cst["A"].first = "fail" /\ cst["A"].autoStart
    /\ cst["A"].pc = "failed" /\ cst["A"].err = "Daemon spawn timeout"
    /\ \E d \in spawned["A"] : daemons[d].st \in {"started", "cleaned", "connected"}

\* ------------------------------------------------------------------ C7
\* C7: with autoStart false, a first connectToSocket that no daemon accepts
\* makes connect() fail with "Daemon is not running", and nothing is spawned.
C7_NotRunning ==
    \A c \in Clients :
        (cst[c].first = "fail" /\ ~cst[c].autoStart)
           => /\ cst[c].pc = "failed"
              /\ cst[c].err = "Daemon is not running"
              /\ spawned[c] = {}

\* the socket file of a killed daemon is there, nothing listens
C7_Witness ==
    /\ cst["A"].first = "fail" /\ ~cst["A"].autoStart
    /\ cst["A"].pc = "failed" /\ cst["A"].err = "Daemon is not running"
    /\ sockFile = 1 /\ daemons[1].st = "exited"

\* ------------------------------------------------------------------ C8
\* C8: the step in which a client destroys its socket, and the later step in
\* which the daemon's end of that socket closes, leave the daemon process,
\* the three files, the handlers the daemon has started, every other socket
\* and every other client's socket reference and pending calls as they were.
C8_Destroys(k) == conns[k].cend = "open" /\ conns'[k].cend = "destroyed"
C8_EndSeen(k) == /\ conns[k].dend = "open" /\ conns'[k].dend = "closed"
                 /\ conns[k].cend # "open"
                 /\ daemons'[conns[k].daemon].st # "exited"
C8_OthersKept(k) ==
    /\ daemons' = daemons
    /\ <<sockFile, pidFile, verFile>>' = <<sockFile, pidFile, verFile>>
    /\ handling' = handling
    /\ storeOps' = storeOps
    /\ \A j \in ConnIds \ {k} : conns'[j] = conns[j]
    /\ conns'[k].up = conns[k].up
    /\ \A c \in Clients \ {conns[k].client} :
          sock'[c] = sock[c] /\ pending'[c] = pending[c]
    /\ settled' = settled /\ timers' = timers
C8_DisconnectLocal ==
    [][\A k \in ConnIds : (C8_Destroys(k) \/ C8_EndSeen(k)) => C8_OthersKept(k)]_vars

\* A has disconnected with a request in flight, the daemon has seen the
\* socket end, and B's call on its own socket is still pending and is served
C8_Witness ==
    /\ sock["A"] = 0 /\ conns[1].cend # "open" /\ conns[1].dend = "closed"
    /\ \E i \in 1..Len(calls) : calls[i].client = "A" /\ calls[i].conn = 1
    /\ daemons[1].st = "ready" /\ sockFile = 1 /\ pidFile = 1 /\ verFile = 1
    /\ conns[2].cend = "open" /\ conns[2].dend = "open"
    /\ \E i \in pending["B"] : conns[2].down # <<>> /\ Head(conns[2].down).id = i

\* ---------------------------------------------------------- C9, C10
\* what the daemon has read of the peer's lines, and what became of each
PeerRead == Len(peerLines) - Len(conns[1].up)
PeerAnswers(i) == {j \in 1..Len(conns[1].down) : conns[1].down[j].for = i}
PeerHandlers(i) == {h \in handling : h.conn = 1 /\ h.res.for = i}
PeerCount(n, P(_)) == Cardinality({i \in 1..n : P(peerLines[i])})
IsStore(l) == l.t = "req" /\ l.method \in StoreMethods
IsUnknown(l) == l.t = "req" /\ l.method \notin KnownMethods
IsBad(l) == l.t = "bad"
IsKnown(l) == l.t = "req" /\ l.method \in KnownMethods
\* a request the daemon has read has its one response, written or about to be
PeerServed(i) ==
    /\ Cardinality(PeerAnswers(i)) + Cardinality(PeerHandlers(i)) = 1
    /\ \A j \in PeerAnswers(i) :
          conns[1].down[j] = Stringify(Response(1, peerLines[i]))
             /\ conns[1].down[j].id = i

\* C9: a request for a method outside the dispatch table gets one response,
\* {id, error: "Unknown method: <name>"} with its own id and no result; it
\* runs no store operation, the connection and the daemon stay up, and the
\* requests after it on the connection get their results.
C9_UnknownMethod ==
    /\ \A i \in 1..PeerRead :
          IsUnknown(peerLines[i]) =>
             /\ PeerServed(i)
             /\ \A j \in PeerAnswers(i) :
                   /\ conns[1].down[j].error = "Unknown method: bogus"
                   /\ conns[1].down[j].result = NoResult
             /\ \A l \in (i + 1)..PeerRead :
                   IsKnown(peerLines[l]) =>
                      /\ PeerServed(l)
                      /\ \A j \in PeerAnswers(l) : conns[1].down[j].error = Undef
    /\ (\E i \in 1..PeerRead : IsUnknown(peerLines[i])) =>
          /\ storeOps = PeerCount(PeerRead, IsStore)
          /\ conns[1].dend = "open" /\ daemons[1].st = "ready"

\* "bogus" was answered with its error and the getLists after it with a result
C9_Witness ==
    /\ Len(peerLines) >= 2 /\ PeerRead >= 2
    /\ IsUnknown(peerLines[1]) /\ IsStore(peerLines[2])
    /\ Cardinality(PeerAnswers(1)) = 1 /\ Cardinality(PeerAnswers(2)) = 1
    /\ \A j \in PeerAnswers(2) : conns[1].down[j].result.tag = "getLists"

\* C10: each non-blank line JSON.parse throws on gets one response
\* {id: "unknown", error: "Invalid JSON"}; it starts no handler and no store
\* operation, the connection and the daemon stay up, and the requests read
\* before and after it each get their own response.
C10_InvalidJson ==
    (\E i \in 1..PeerRead : IsBad(peerLines[i])) =>
       /\ Cardinality({j \in 1..Len(conns[1].down) : conns[1].down[j] = InvalidJson})
             = PeerCount(PeerRead, IsBad)
       /\ \A j \in 1..Len(conns[1].down) :
             conns[1].down[j].id = 0 => conns[1].down[j] = InvalidJson
       /\ \A h \in handling : h.res.for # 0 /\ peerLines[h.res.for].t = "req"
       /\ storeOps = PeerCount(PeerRead, IsStore)
       /\ conns[1].dend = "open" /\ daemons[1].st = "ready"
       /\ \A i \in 1..PeerRead : peerLines[i].t = "req" => PeerServed(i)

\* a request, a malformed line and another request, all three answered
C10_Witness ==
    /\ Len(peerLines) = 3 /\ PeerRead = 3 /\ handling = {}
    /\ IsStore(peerLines[1]) /\ IsBad(peerLines[2]) /\ peerLines[3].t = "req"
    /\ Len(conns[1].down) = 3
    /\ \E j \in 1..3 : conns[1].down[j] = InvalidJson

\* ------------------------------------------------------------------ C11
\* C11: every line the daemon has written for a request carries that
\* request's id and exactly one of the keys result and error.
C11_ResultXorError ==
    \A k \in ConnIds : \A j \in 1..Len(conns[k].down) :
        LET line == conns[k].down[j] IN
        line.for # 0 =>
            /\ line.id = line.for
            /\ (line.error # Undef) # (line.result # NoResult)

\* ------------------------------------------------------------------ C12
\* C12: while the {ok: true} response of a shutdown request is still to be
\* written its daemon is running; the step that reads the request only arms
\* the timer; the response leaves the handler by being written on the socket
\* the request came from; and the process exits with no response unwritten.
C12_IsOk(h) == h.res.result.tag = "ok"
C12_ResponseFirst ==
    /\ [](\A h \in handling : C12_IsOk(h) => Alive(conns[h.conn].daemon))
    /\ [][/\ \A h \in handling' \ handling :
                C12_IsOk(h) => /\ Alive(conns[h.conn].daemon)'
                               /\ daemons'[conns[h.conn].daemon].exitTimer
          /\ \A h \in handling \ handling' :
                C12_IsOk(h) =>
                   /\ conns[h.conn].dend = "open"
                   /\ conns[h.conn].cend = "open"
                        => conns'[h.conn].down = Append(conns[h.conn].down, h.res)
          /\ \A d \in DaemonIds :
                (Alive(d) /\ daemons'[d].st = "exited") => NoHandlers(d)]_vars

\* the daemon stop command's shutdown call was resolved with {ok: true} and
\* the daemon has exited since
C12_Witness ==
    /\ daemons[1].st = "exited" /\ daemons[1].cause = "shutdown request"
    /\ \E i \in 1..Len(calls) :
          /\ calls[i].method = "shutdown"
          /\ Len(settled[i]) = 1 /\ settled[i][1].kind = "resolve"
          /\ settled[i][1].res.tag = "ok"

\* ------------------------------------------------- one daemon's lifetime
\* IDLE_TIMEOUT_MS and the period of the idle interval, in units of 30 s
IDLE_TIMEOUT == 60
CHECK_PERIOD == 2

\* Date.now() - lastActivity > IDLE_TIMEOUT_MS
IdleExpiredAtLeast(e) == e >= IDLE_TIMEOUT
IdleExpired(e) == e > IDLE_TIMEOUT

\* 30 s pass, which an armed 100 ms timer does not outlast; when the interval
\* of setupIdleTimer is due its callback runs
IdleTick(d) ==
    /\ daemons[d].st = "ready"
    /\ ~daemons[d].exitTimer
    /\ NoHandlers(d)
    /\ LET idle == daemons[d].idle + 1
           tick == (daemons[d].tick + 1) % CHECK_PERIOD
       IN IF tick = 0 /\ IdleExpired(idle)
          THEN Shutdown(d, "idle")
          ELSE /\ daemons' = [daemons EXCEPT ![d].idle = idle, ![d].tick = tick]
               /\ UNCHANGED <<conns, handling, fileVars>>
    /\ UNCHANGED <<moreVars, appVars, clientVars, storeOps, cst, spawned, strays, peerLines>>

\* process.on("SIGTERM", shutdown), process.on("SIGINT", shutdown)
Signal(d) ==
    /\ daemons[d].st = "ready"
    /\ NoHandlers(d)
    /\ \E sig \in {"SIGTERM", "SIGINT"} : Shutdown(d, sig)
    /\ UNCHANGED <<moreVars, appVars, clientVars, storeOps, cst, spawned, strays, peerLines>>

\* server.on("error", ...) while the server is listening
ServerError(d) ==
    /\ daemons[d].st = "ready"
    /\ NoHandlers(d)
    /\ Shutdown(d, "server error")
    /\ UNCHANGED <<moreVars, appVars, clientVars, storeOps, cst, spawned, strays, peerLines>>

LifeMethods == {"ping", "shutdown"}

\* a client's request arrives on the connection
LifeSend(k) ==
    /\ conns[k].client = "peer" /\ conns[k].cend = "open"
    /\ Len(peerLines) < MaxPeerLines
    /\ \E m \in LifeMethods :
          /\ conns' = [conns EXCEPT ![k].up = Append(@, ReqLine(Len(peerLines) + 1, m))]
          /\ peerLines' = Append(peerLines, ReqLine(Len(peerLines) + 1, m))
    /\ UNCHANGED <<moreVars, appVars, clientVars, handling, daemons, fileVars, storeOps, cst,
                   spawned, strays>>

\* A daemon is running with one connection open. Since its last request
\* less than a minute has passed, and any of its three files may have been
\* removed by someone else.
InitLife ==
    /\ InitApp
    /\ sock = [c \in Clients |-> 0]
    /\ pending = [c \in Clients |-> {}]
    /\ calls = <<>>
    /\ timers = {}
    /\ settled = [i \in CallIds |-> <<>>]
    /\ conns = [k \in ConnIds |->
                  IF k = 1
                  THEN [client |-> "peer", daemon |-> 1, cend |-> "open",
                        dend |-> "open", up |-> <<>>, down |-> <<>>]
                  ELSE NoConn]
    /\ handling = {}
    /\ \E i \in 0..1 :
          daemons = [d \in DaemonIds |->
                       IF d = 1 THEN [RunningDaemon(CLI_VERSION) EXCEPT !.idle = i]
                       ELSE NoDaemon]
    /\ sockFile \in {0, 1} /\ pidFile \in {0, 1} /\ verFile \in {0, 1}
    /\ storeOps = 0
    /\ cst = [c \in Clients |-> NewClient]
    /\ spawned = [c \in Clients |-> {}]
    /\ strays = 0
    /\ peerLines = <<>>

NextLife ==
    \/ \E k \in ConnIds : LifeSend(k)
    \/ \E k \in ConnIds : \E n \in 1..Len(conns[k].up) : DaemonData(k, n)
    \/ \E h \in handling : DaemonReply(h)
    \/ \E d \in DaemonIds : ShutdownTimer(d)
    \/ \E d \in DaemonIds : Signal(d)
    \/ \E d \in DaemonIds : ServerError(d)
    \/ \E d \in DaemonIds : IdleTick(d)

SpecLife == InitLife /\ [][NextLife]_vars

\* ------------------------------------------------------------------ C13
\* C13: whichever trigger runs shutdown() in a listening daemon, with or
\* without other triggers pending and whichever of the files are there, the
\* step ends with the process exited with code 0, its server and sockets
\* closed, the remote connection closed and none of the three files present;
\* an exited process does nothing more.
C13_Exits(d) == daemons[d].st = "ready" /\ daemons'[d].st = "exited"
C13_ShutdownSafe ==
    [][\A d \in DaemonIds :
          /\ C13_Exits(d) =>
                /\ daemons'[d].code = "0"
                /\ daemons'[d].cause \in {"SIGTERM", "SIGINT", "idle", "server error",
                                          "shutdown request"}
                /\ ~daemons'[d].remote
                /\ ~daemons'[d].exitTimer
                /\ sockFile' = 0 /\ pidFile' = 0 /\ verFile' = 0
                /\ \A k \in ConnIds : conns[k].daemon = d => conns'[k].dend = "closed"
          /\ daemons[d].st = "exited" =>
                /\ daemons'[d] = daemons[d]
                /\ <<sockFile, pidFile, verFile>>' = <<sockFile, pidFile, verFile>>]_vars

\* a signal ended the daemon while the timer of a shutdown request it had
\* answered was still pending
C13_Witness ==
    /\ daemons[1].st = "exited" /\ daemons[1].cause = "SIGTERM"
    /\ \E j \in 1..Len(conns[1].down) : conns[1].down[j].result.tag = "ok"
    /\ sockFile = 0 /\ pidFile = 0 /\ verFile = 0

\* ------------------------------------------------------------------ C15
\* C15 as stated: a periodic check that finds the daemon idle for 30 minutes
\* or more shuts it down, so a check that leaves it running found less.
C15_Check(d) ==
    /\ daemons[d].st = "ready" /\ daemons[d].tick = CHECK_PERIOD - 1
    /\ daemons'[d].st = "ready" /\ daemons'[d].tick = 0
C15_AtLeast ==
    [][\A d \in DaemonIds : C15_Check(d) => daemons'[d].idle < IDLE_TIMEOUT]_vars

\* C15 (amended): a periodic check that finds the daemon idle for more than
\* 30 minutes shuts it down, and afterwards the three files are gone; a check
\* that leaves it running found it idle for 30 minutes at most; the daemon
\* exits for idleness at no other moment.
C15_IdleShutdown ==
    [][\A d \in DaemonIds :
          /\ C15_Check(d) => daemons'[d].idle <= IDLE_TIMEOUT
          /\ (daemons[d].st = "ready" /\ daemons'[d].cause = "idle") =>
                /\ daemons[d].tick = CHECK_PERIOD - 1
                /\ daemons[d].idle + 1 > IDLE_TIMEOUT
                /\ daemons'[d].st = "exited" /\ daemons'[d].code = "0"
                /\ sockFile' = 0 /\ pidFile' = 0 /\ verFile' = 0]_vars

\* the daemon answered a ping, then stayed idle until a check ended it
C15_Witness ==
    /\ daemons[1].st = "exited" /\ daemons[1].cause = "idle"
    /\ \E j \in 1..Len(conns[1].down) : conns[1].down[j].result.tag = "ping"
    /\ sockFile = 0 /\ pidFile = 0 /\ verFile = 0

\* ------------------------------------------------ a daemon's start-up
\* No daemon exists and nothing is at the socket path; client A has not
\* called connect() yet.
InitStart ==
    /\ InitApp
    /\ sock = [c \in Clients |-> 0]
    /\ pending = [c \in Clients |-> {}]
    /\ calls = <<>>
    /\ timers = {}
    /\ settled = [i \in CallIds |-> <<>>]
    /\ conns = [k \in ConnIds |-> NoConn]
    /\ handling = {}
    /\ daemons = [d \in DaemonIds |-> NoDaemon]
    /\ sockFile = 0 /\ pidFile = 0 /\ verFile = 0
    /\ storeOps = 0
    /\ cst = [c \in Clients |-> NewClient]
    /\ spawned = [c \in Clients |-> {}]
    /\ strays = 0
    /\ peerLines = <<>>

\* connect() spawning the one daemon of the run, and calls once connected
NextStart ==
    \/ \E auto \in BOOLEAN : ConnectBegin("A", auto)
    \/ FirstConnect("A")
    \/ SpawnReady("A")
    \/ SpawnTimeout("A")
    \/ SpawnExit("A")
    \/ SpawnError("A")
    \/ Reconnect("A")
    \/ UserPing("A")
    \/ UserCall("A")
    \/ \E d \in DaemonIds : DaemonCleanup(d)
    \/ \E d \in DaemonIds, ok \in BOOLEAN : DaemonRemote(d, ok)
    \/ \E d \in DaemonIds : DaemonListen(d)
    \/ \E k \in ConnIds : ClientData(k)
    \/ \E id \in CallIds : RequestTimeout(id)
    \/ \E k \in ConnIds : \E n \in 1..Len(conns[k].up) : DaemonData(k, n)
    \/ \E h \in handling : DaemonReply(h)

SpecStart == InitStart /\ [][NextStart]_vars

\* ------------------------------------------------------------------ C14
\* C14: the step in which a daemon sends "ready" starts with its remote
\* connection established and ends with the socket bound to it and the PID
\* and version files written by it; a daemon that has sent "ready" is
\* listening at the socket path; and once spawnDaemon() has resolved, a
\* connection to the socket path is accepted by the daemon that was spawned.
C14_SendsReady(d) == ~daemons[d].ready /\ daemons'[d].ready
C14_ReadyReceived(c) == cst[c].pc \in {"sock2", "sock3"}
Action(type, id, todo, fields) ==
    [type |-> type, id |-> id, todo |-> todo, fields |-> fields, items |-> <<>>]
Item(id, fields) == [id |-> id, fields |-> fields]
BatchAction(type, items) == [Action(type, 0, NoRow, NoRow) EXCEPT !.items = items]
NoAction == Action(Undef, 0, NoRow, NoRow)
\* UndoEntry: n stands for its id and timestamp
Entry(n, undo) == [n |-> n, undo |-> undo]

\* history.entries.shift()
ShiftNewest(es) == SubSeq(es, 1, Len(es) - 1)
Shift(es) == Tail(es)

\* while (history.entries.length > history.maxEntries) shift(): a file that
\* began absent or empty only ever holds maxEntries = MAX_ENTRIES
PruneNone(es) == es
RECURSIVE Prune(_)
Prune(es) == IF Len(es) > MAX_ENTRIES THEN Prune(Shift(es)) ELSE es

\* JSON.stringify then JSON.parse of a value and of an object's values
Json(v) == IF v = "NaN" THEN "null" ELSE v
JsonRow(r) == [c \in DOMAIN r |-> IF r[c] = Undefined THEN Undef ELSE Json(r[c])]
JsonItems(items) == [i \in 1..Len(items) |-> Item(items[i].id, JsonRow(items[i].fields))]
JsonAction(a) ==
    [a EXCEPT !.todo = JsonRow(@), !.fields = JsonRow(@), !.items = JsonItems(@)]

\* recordUndo: load, push, prune, save
RecordUndo(undo) ==
    /\ ledger' = Prune(Append(ledger, Entry(recorded + 1, JsonAction(undo))))
    /\ recorded' = recorded + 1
    /\ kept' = Append(kept, Entry(recorded + 1, JsonAction(undo)))

\* for (i = 0; i < count && entries.length > 0; i++) popped.push(entries.pop())
PopCount(count, len) == IF count <= 0 THEN 0 ELSE IF count < len THEN count ELSE len
PoppedOldestFirst(es, count) ==
    SubSeq(es, Len(es) - PopCount(count, Len(es)) + 1, Len(es))
Popped(es, count) == [i \in 1..PopCount(count, Len(es)) |-> es[Len(es) - i + 1]]
RemainingAll(es, count) == es
Remaining(es, count) == SubSeq(es, 1, Len(es) - PopCount(count, Len(es)))

\* popUndoEntries(count): load, pop, save, return
PopUndoEntries(count) ==
    /\ popped' = [count |-> count, entries |-> Popped(ledger, count)]
    /\ ledger' = Remaining(ledger, count)
    /\ kept' = Remaining(kept, count)
    /\ pops' = pops + 1

\* a command records its undo entry
LedgerAppend ==
    /\ recorded < MaxAppends
    /\ RecordUndo(NoAction)
    /\ UNCHANGED <<ipcVars, moreVars, popped, pops, store, snaps, ret, lists, exit>>

\* the counts the undo command passes: one, a few, more than the ledger holds
PopCounts == {1, 2, MAX_ENTRIES + 1}

LedgerPop(count) ==
    /\ pops < MaxPops
    /\ PopUndoEntries(count)
    /\ UNCHANGED <<ipcVars, moreVars, recorded, store, snaps, ret, lists, exit>>

\* No daemon, no client; the ledger file is absent.
InitIdle ==
    /\ sock = [c \in Clients |-> 0]
    /\ pending = [c \in Clients |-> {}]
    /\ calls = <<>>
    /\ timers = {}
    /\ settled = [i \in CallIds |-> <<>>]
    /\ conns = [k \in ConnIds |-> NoConn]
    /\ handling = {}
    /\ daemons = [d \in DaemonIds |-> NoDaemon]
    /\ sockFile = 0 /\ pidFile = 0 /\ verFile = 0
    /\ storeOps = 0
    /\ cst = [c \in Clients |-> NewClient]
    /\ spawned = [c \in Clients |-> {}]
    /\ strays = 0
    /\ peerLines = <<>>

InitLedger == InitIdle /\ InitApp

NextLedger ==
    \/ LedgerAppend
    \/ \E count \in PopCounts : LedgerPop(count)

SpecLedger == InitLedger /\ [][NextLedger]_vars

\* ------------------------------------------------------------------ C16
\* C16: the persisted ledger never holds more than 50 entries.
C16_AtMostFifty == Len(ledger) <= MAX_ENTRIES

\* more than 50 entries were recorded, some were popped, and the ledger has
\* filled up again
C16_Witness ==
    /\ recorded > MAX_ENTRIES /\ pops > 0 /\ popped.entries # <<>>
    /\ Len(ledger) = MAX_ENTRIES

\* ------------------------------------------------------------------ C17
\* C17: the ledger is the newest end of the entries recorded and not popped,
\* in the order they were recorded; an append to a full ledger drops its
\* oldest entry and adds the new one, an append to any other ledger only adds.
C17_Appends == recorded' = recorded + 1
C17_FifoEviction ==
    /\ [](/\ Len(ledger) <= Len(kept)
          /\ ledger = SubSeq(kept, Len(kept) - Len(ledger) + 1, Len(kept))
          /\ \A i \in 1..(Len(kept) - 1) : kept[i].n < kept[i + 1].n)
    /\ [][C17_Appends =>
            ledger' = Append(IF Len(ledger) = MAX_ENTRIES THEN Tail(ledger) ELSE ledger,
                             Entry(recorded', NoAction))]_vars

\* entries were evicted, then one was popped and another recorded: the
\* ledger holds 50 entries, the oldest of which is an entry recorded later
\* than the first
C17_Witness ==
    /\ pops > 0 /\ Len(popped.entries) = 1
    /\ Len(ledger) = MAX_ENTRIES
    /\ ledger[1].n > 1
    /\ ledger[MAX_ENTRIES].n > popped.entries[1].n

\* ------------------------------------------------------------------ C18
\* C18: popUndoEntries(n) on a ledger of length L returns its min(n, L)
\* newest entries, newest first, and persists the other L - min(n, L)
\* as they were.
C18_Pops == pops' = pops + 1
C18_Min(a, b) == IF a < b THEN a ELSE b
C18_PopNewest ==
    [][C18_Pops =>
         LET L == Len(ledger)
             m == C18_Min(popped'.count, L)
         IN /\ popped'.count \in PopCounts
            /\ Len(popped'.entries) = m
            /\ \A i \in 1..m : popped'.entries[i] = ledger[L - i + 1]
            /\ Len(ledger') = L - m
            /\ \A i \in 1..(L - m) : ledger'[i] = ledger[i]]_vars

\* two were popped from a longer ledger
C18_Witness ==
    /\ pops > 0 /\ popped.count = 2 /\ Len(popped.entries) = 2
    /\ popped.entries[1].n = popped.entries[2].n + 1
    /\ Len(ledger) >= 1

\* ------------------------------------------------- TttClient, todos table
\* addTodo: the row it sets from the text and the optional fields
AddRow(listId, text, f) ==
    [list |-> listId, text |-> text, notes |-> JsOr(f.notes, ""), number |-> JsOr(f.number, "0"),
     fiveStarRating |-> JsOr(f.fiveStarRating, "1"), done |-> "false",
     type |-> JsOr(f.type, "A")]

\* the Todo that markTodoDone, markTodoUndone and deleteTodo build from a row
TodoOf(row) == [row EXCEPT !.list = JsOr(@, ""), !.text = JsOr(@, "")]

\* restoreTodo: the row it sets from a Todo
RestoreRowNoNotes(todo) == [todo EXCEPT !.notes = ""]
RestoreRow(todo) ==
    [list |-> JsOr(todo.list, ""), text |-> JsOr(todo.text, ""), notes |-> JsOr(todo.notes, ""),
     number |-> JsOr(todo.number, "0"),
     fiveStarRating |-> JsOr(todo.fiveStarRating, "1"),
     done |-> JsOr(todo.done, "false"), type |-> JsOr(todo.type, "A")]

\* updateTodo and batchUpdateTodos: previousFields, and the row afterwards
PreviousFieldsDefined(row, f) ==
    [c \in DOMAIN row |-> IF f[c] \notin {Undef, Undefined} THEN row[c] ELSE Undef]
PreviousFields(row, f) == [c \in DOMAIN row |-> IF f[c] # Undef THEN Get(row[c]) ELSE Undef]
UpdateRowSetsUnset(row, f) ==
    [c \in DOMAIN row |-> IF f[c] = Undefined THEN "" ELSE IF f[c] # Undef THEN f[c] ELSE row[c]]
UpdateRow(row, f) ==
    [c \in DOMAIN row |-> IF f[c] \notin {Undef, Undefined} THEN f[c] ELSE row[c]]

\* batchUpdateTodos: the table afterwards, and the results it returns
RECURSIVE BatchUpdate(_, _)
BatchUpdate(s, items) ==
    IF items = <<>> THEN s
    ELSE LET u == Head(items)
         IN BatchUpdate(IF NotFound(s[u.id]) THEN s
                        ELSE [s EXCEPT ![u.id] = UpdateRow(@, u.fields)], Tail(items))
RECURSIVE BatchResults(_, _)
BatchResults(s, items) ==
    IF items = <<>> THEN <<>>
    ELSE LET u == Head(items)
         IN IF NotFound(s[u.id]) THEN BatchResults(s, Tail(items))
            ELSE <<Item(u.id, PreviousFields(s[u.id], u.fields))>>
                   \o BatchResults([s EXCEPT ![u.id] = UpdateRow(@, u.fields)], Tail(items))

\* batchDeleteTodos: the table afterwards
RECURSIVE BatchDelete(_, _)
BatchDelete(s, items) ==
    IF items = <<>> THEN s
    ELSE BatchDelete([s EXCEPT ![Head(items).id] = NoRow], Tail(items))

\* the List deleteList builds from a row, and the row restoreList sets from it
ListOf(row) == [row EXCEPT !.name = JsOr(@, ""), !.number = Undef]
RestoreList(list) ==
    [name |-> JsOr(list.name, ""), purpose |-> JsOr(list.purpose, ""),
     backgroundColour |-> JsOr(list.backgroundColour, "blue"),
     icon |-> JsOr(list.icon, ""), number |-> "0", type |-> JsOr(list.type, "Info")]

\* the id addTodo generates: one no row and no ledger entry has
FreshTodo ==
    LET names(a) == IF a.type \in {"deleteList", "restoreList", "restoreListFields"} THEN {}
                    ELSE {a.id} \cup {a.items[i].id : i \in 1..Len(a.items)}
        free == {t \in TodoIds : /\ store[t] = NoRow
                                /\ \A i \in 1..Len(kept) : t \notin names(kept[i].undo)}
    IN IF free = {} THEN 0 ELSE SeqMin(free)
\* the id createList generates
FreshList ==
    LET free == {l \in ListIds :
                    /\ lists[l] = NoList
                    /\ \A i \in 1..Len(kept) :
                          kept[i].undo.type \in {"deleteList", "restoreList", "restoreListFields"}
                              => kept[i].undo.id # l}
    IN IF free = {} THEN Undef ELSE CHOOSE l \in free : TRUE

\* a client from getClient(): the daemon proxy sends arguments and results
\* as JSON, the direct client passes them as they are
Vias == {"direct", "daemon"}
Sent(via, r) == IF via = "daemon" THEN JsonRow(r) ELSE r
SentValue(via, v) == IF via = "daemon" THEN Json(v) ELSE v

\* ------------------------------------------------ executeUndo, commands
\* executeUndo(client, action) on the store
\* the updates array of a restoreFields action
Updates(a) == IF a.id = 0 THEN a.items ELSE <<Item(a.id, a.fields)>>
\* on the todos table
ExecuteUndo(s, a) ==
    IF a.type = "deleteTodo" THEN [s EXCEPT ![a.id] = NoRow]
    ELSE IF a.type = "batchDeleteTodos" THEN BatchDelete(s, a.items)
    ELSE IF a.type = "restoreTodo" THEN [s EXCEPT ![a.id] = RestoreRow(a.todo)]
    ELSE IF a.type = "restoreFields" THEN BatchUpdate(s, Updates(a))
    ELSE s
\* on the lists table; a restoreList holds the List as its todo
ExecuteUndoList(l, a) ==
    IF a.type = "deleteList" THEN [l EXCEPT ![a.id] = NoList]
    ELSE IF a.type = "restoreList" THEN [l EXCEPT ![a.id] = RestoreList(a.todo)]
    ELSE IF a.type = "restoreListFields" /\ ~NotFound(l[a.id])
    THEN [l EXCEPT ![a.id] = UpdateRow(@, a.fields)]
    ELSE l
SentItems(via, items) == IF via = "daemon" THEN JsonItems(items) ELSE items
SentAction(via, a) ==
    [a EXCEPT !.todo = Sent(via, @), !.fields = Sent(via, @), !.items = SentItems(via, @)]

\* for (const entry of entries) await executeUndo(client, entry.undo)
RECURSIVE Replay(_, _, _)
Replay(s, entries, via) ==
    IF entries = <<>> THEN s
    ELSE Replay(ExecuteUndo(s, SentAction(via, Head(entries).undo)), Tail(entries), via)
RECURSIVE ReplayLists(_, _, _)
ReplayLists(l, entries, via) ==
    IF entries = <<>> THEN l
    ELSE ReplayLists(ExecuteUndoList(l, SentAction(via, Head(entries).undo)),
                     Tail(entries), via)

\* what the option parsers of todo add and todo update can yield
Texts == {"", "t"}
AddFields ==
    {[NoRow EXCEPT !.fiveStarRating = r, !.notes = n] :
        r \in {Undef, "3"}, n \in {Undef, "x"}}
UpdateFields ==
    {[NoRow EXCEPT !.fiveStarRating = r] : r \in {"0", "3"}}
       \cup {[NoRow EXCEPT !.notes = n] : n \in {"", "x"}}
       \cup {[NoRow EXCEPT !.text = "u"], [NoRow EXCEPT !.done = "true"]}

\* a command has run its store operation: the store as it was goes with the
\* entry it records
Recorded(cmd, undo) ==
    /\ recorded < MaxCmds
    /\ RecordUndo(undo)
    /\ snaps' = Append(snaps, store)
    /\ exit' = [cmd |-> cmd, ok |-> TRUE]
    /\ UNCHANGED <<ipcVars, moreVars, popped, pops, ret>>

\* findListByNameOrId, by id: whether a list was found
Found(l) == lists[l] # NoList

\* a command has thrown before it recorded anything
Failed(cmd) ==
    /\ exit' = [cmd |-> cmd, ok |-> FALSE]
    /\ UNCHANGED <<ipcVars, moreVars, ledger, recorded, kept, popped, pops, store, snaps, ret, lists>>

\* todo add
CmdAdd(via, listId, text, f) ==
    /\ Found(listId)
    /\ FreshTodo # 0
    /\ store' = [store EXCEPT ![FreshTodo] = AddRow(listId, text, Sent(via, f))]
    /\ Recorded("todo add", Action("deleteTodo", FreshTodo, NoRow, NoRow))
    /\ UNCHANGED lists

\* todo update
CmdUpdate(via, t, f) ==
    IF NotFound(store[t]) THEN Failed("todo update") ELSE
    /\ store' = [store EXCEPT ![t] = UpdateRow(@, Sent(via, f))]
    /\ Recorded("todo update", Action("restoreFields", t, NoRow,
                       Sent(via, PreviousFields(store[t], Sent(via, f)))))
    /\ UNCHANGED lists

\* todo done and todo undone
CmdDone(via, t, done) ==
    IF NotFound(store[t]) THEN Failed(IF done = "true" THEN "todo done" ELSE "todo undone") ELSE
    /\ store' = [store EXCEPT ![t].done = done]
    /\ Recorded(IF done = "true" THEN "todo done" ELSE "todo undone",
                Action("restoreFields", t, NoRow,
                       [NoRow EXCEPT !.done = Get(Sent(via, TodoOf(store[t])).done)]))
    /\ UNCHANGED lists

\* todo delete
CmdDelete(via, t) ==
    IF NotFound(store[t]) THEN Failed("todo delete") ELSE
    /\ store' = [store EXCEPT ![t] = NoRow]
    /\ Recorded("todo delete", Action("restoreTodo", t, Sent(via, TodoOf(store[t])), NoRow))
    /\ UNCHANGED lists

\* undo [count]: pop, then replay what was popped, newest first; with nothing
\* popped the command fails and nothing is replayed
CmdUndo(via, count) ==
    /\ pops < MaxPops
    /\ PopUndoEntries(count)
    /\ store' = Replay(store, Popped(ledger, count), via)
    /\ lists' = ReplayLists(lists, Popped(ledger, count), via)
    /\ snaps' = Remaining(snaps, count)
    /\ exit' = [cmd |-> "undo", ok |-> Popped(ledger, count) # <<>>]
    /\ UNCHANGED <<ipcVars, moreVars, recorded, ret>>

NextUndo ==
    \/ \E via \in Vias, listId \in ListIds, text \in Texts, f \in AddFields :
          CmdAdd(via, listId, text, f)
    \/ \E via \in Vias, t \in TodoIds, f \in UpdateFields : CmdUpdate(via, t, f)
    \/ \E via \in Vias, t \in TodoIds, done \in {"true", "false"} : CmdDone(via, t, done)
    \/ \E via \in Vias, t \in TodoIds : CmdDelete(via, t)
    \/ \E via \in Vias, count \in {1, 2} : CmdUndo(via, count)

SpecUndo == InitLedger /\ [][NextUndo]_vars

\* ------------------------------------- list commands, batch commands
\* what the option parsers of list create and list update can yield
ListNames == {"n"}
CreateOptions ==
    {[NoList EXCEPT !.backgroundColour = "blue", !.type = "Info", !.icon = i] :
        i \in {Undef, "i"}}
ListFields == {NoList, [NoList EXCEPT !.name = "m"], [NoList EXCEPT !.icon = "j"]}
\* the --items arrays of todo batch-add and todo batch-update
BatchFields == {[NoRow EXCEPT !.notes = n] : n \in {"x", "y"}}
AddItems ==
    {<<Item(0, f)>> : f \in {NoRow} \cup BatchFields}
       \cup {<<Item(0, NoRow), Item(0, f)>> : f \in BatchFields}
UpdateItems ==
    {<<Item(t, f)>> : t \in TodoIds, f \in BatchFields}
       \cup {<<Item(t, [NoRow EXCEPT !.notes = "x"]), Item(u, [NoRow EXCEPT !.notes = "y"])>> :
                t \in TodoIds, u \in TodoIds}

\* list create
CmdListCreate(via, name, o) ==
    /\ FreshList # Undef
    /\ lists' = [lists EXCEPT ![FreshList] = CreateRow(name, Sent(via, o))]
    /\ Recorded("list create", Action("deleteList", FreshList, NoRow, NoRow))
    /\ UNCHANGED store

\* list update
CmdListUpdate(via, l, f) ==
    IF ~Found(l) \/ f = NoList \/ NotFound(lists[l]) THEN Failed("list update") ELSE
    /\ lists' = [lists EXCEPT ![l] = UpdateRow(@, Sent(via, f))]
    /\ Recorded("list update", Action("restoreListFields", l, NoRow,
                       Sent(via, PreviousFields(lists[l], Sent(via, f)))))
    /\ UNCHANGED store

\* list delete, with or without --force
CmdListDelete(via, l, force) ==
    IF \/ ~Found(l)
       \/ ~force /\ \E t \in TodoIds : store[t].list = l
       \/ NotFound(lists[l])
    THEN Failed("list delete") ELSE
    /\ lists' = [lists EXCEPT ![l] = NoList]
    /\ Recorded("list delete", Action("restoreList", l, Sent(via, ListOf(lists[l])), NoRow))
    /\ UNCHANGED store

\* todo add naming a list that is not found, todo update with no option
CmdAddFails(l) == ~Found(l) /\ Failed("todo add")
CmdUpdateFails == Failed("todo update")

\* the ids batchAddTodos generates for n items
FreshTodos(n) ==
    LET first == FreshTodo
        second == CHOOSE t \in TodoIds \cup {0} :
                     \/ t = 0 /\ \A u \in TodoIds : u > first => store[u] # NoRow
                     \/ /\ t \in TodoIds /\ t > first /\ store[t] = NoRow
                        /\ \A u \in TodoIds : (u > first /\ u < t) => store[u] # NoRow
    IN IF n = 1 THEN <<first>> ELSE <<first, second>>

\* todo batch-add
CmdBatchAdd(via, l, items) ==
    IF ~Found(l) THEN Failed("todo batch-add") ELSE
    LET ids == FreshTodos(Len(items))
    IN /\ \A i \in 1..Len(ids) : ids[i] # 0
       /\ store' = [t \in TodoIds |->
                       IF \E i \in 1..Len(ids) : ids[i] = t
                       THEN LET i == CHOOSE i \in 1..Len(ids) : ids[i] = t
                            IN AddRow(l, "t", Sent(via, items[i].fields))
                       ELSE store[t]]
       /\ Recorded("todo batch-add",
                   BatchAction("batchDeleteTodos",
                               [i \in 1..Len(ids) |-> Item(ids[i], NoRow)]))
       /\ UNCHANGED lists

\* todo batch-update
CmdBatchUpdate(via, items) ==
    /\ store' = BatchUpdate(store, SentItems(via, items))
    /\ Recorded("todo batch-update",
                BatchAction("restoreFields",
                            SentItems(via, BatchResults(store, SentItems(via, items)))))
    /\ UNCHANGED lists

NextCmd ==
    \/ \E via \in Vias, listId \in ListIds, text \in Texts, f \in AddFields :
          recorded < MaxRuns /\ CmdAdd(via, listId, text, f)
    \/ \E via \in Vias, t \in TodoIds, f \in UpdateFields :
          recorded < MaxRuns /\ CmdUpdate(via, t, f)
    \/ \E via \in Vias, t \in TodoIds, done \in {"true", "false"} :
          recorded < MaxRuns /\ CmdDone(via, t, done)
    \/ \E via \in Vias, t \in TodoIds : recorded < MaxRuns /\ CmdDelete(via, t)
    \/ \E via \in Vias, l \in ListIds, items \in AddItems :
          recorded < MaxRuns /\ CmdBatchAdd(via, l, items)
    \/ \E via \in Vias, items \in UpdateItems :
          recorded < MaxRuns /\ CmdBatchUpdate(via, items)
    \/ \E via \in Vias, name \in ListNames, o \in CreateOptions :
          recorded < MaxRuns /\ CmdListCreate(via, name, o)
    \/ \E via \in Vias, l \in ListIds, f \in ListFields :
          recorded < MaxRuns /\ CmdListUpdate(via, l, f)
    \/ \E via \in Vias, l \in ListIds, force \in BOOLEAN :
          recorded < MaxRuns /\ CmdListDelete(via, l, force)
    \/ \E l \in ListIds : CmdAddFails(l)
    \/ CmdUpdateFails
    \/ \E via \in Vias, count \in {1, 2} : CmdUndo(via, count)

SpecCmd == InitLedger /\ [][NextCmd]_vars

\* ------------------------------------------------------------------ C21
\* the counting half of C21: a command that succeeds appends one entry, on
\* top of those there were, and a command that fails appends none
C21_ExactlyOne ==
    [][pops' = pops =>
          IF exit'.ok
          THEN recorded' = recorded + 1 /\ SubSeq(kept', 1, Len(kept)) = kept
                  /\ Len(kept') = Len(kept) + 1 /\ Len(ledger') = Len(ledger) + 1
          ELSE recorded' = recorded /\ kept' = kept /\ ledger' = ledger]_vars

\* C21: every mutating command that succeeds appends exactly one entry, and
\* that entry is the inverse of what the command did: executed, it puts both
\* tables back as they were before the command; a command that fails appends
\* none.
C21_OneInverse ==
    [][pops' = pops =>
          IF exit'.ok
          THEN /\ recorded' = recorded + 1
               /\ kept' = Append(kept, kept'[Len(kept')])
               /\ Replay(store', <<kept'[Len(kept')]>>, "direct") = store
               /\ ReplayLists(lists', <<kept'[Len(kept')]>>, "direct") = lists
          ELSE recorded' = recorded /\ kept' = kept]_vars

\* ------------------------------------------------------------------ C19
\* C19: an undo of N entries, N no more than the ledger holds, leaves every
\* todo as it was before the N most recent commands and the ledger N shorter.
C19_UndoRestores ==
    [][(pops' = pops + 1 /\ popped'.count <= Len(ledger)) =>
          /\ store' = snaps[Len(snaps) - popped'.count + 1]
          /\ Len(ledger') = Len(ledger) - popped'.count]_vars

\* ------------------------------------- addTodo, deleteTodo, restoreTodo
\* what a caller of addTodo may pass for the optional fields
ApiFields ==
    {[NoRow EXCEPT !.notes = n, !.number = x, !.fiveStarRating = r, !.type = y] :
        n \in {Undef, "", "x"}, x \in {Undef, "0", "5", "NaN"},
        r \in {Undef, "0", "3"}, y \in {Undef, "", "B"}}

\* addTodo(listId, text, fields) on a client; the id comes back
ApiAdd(via, listId, text, f) ==
    /\ ret.id = 0
    /\ FreshTodo # 0
    /\ store' = [store EXCEPT ![FreshTodo] = AddRow(SentValue(via, listId), SentValue(via, text), Sent(via, f))]
    /\ ret' = [via |-> via, id |-> FreshTodo, todo |-> NoRow]
    /\ UNCHANGED <<ipcVars, moreVars, ledger, recorded, kept, popped, pops, snaps, lists, exit>>

\* deleteTodo(id) of the id addTodo gave; the deleted Todo comes back
ApiDelete(via) ==
    /\ ret.id # 0
    /\ store[ret.id] # NoRow
    /\ snaps = <<>>
    /\ store' = [store EXCEPT ![ret.id] = NoRow]
    /\ ret' = [via |-> via, id |-> ret.id, todo |-> Sent(via, TodoOf(store[ret.id]))]
    /\ snaps' = <<store>>
    /\ UNCHANGED <<ipcVars, moreVars, ledger, recorded, kept, popped, pops, lists, exit>>

\* restoreTodo(todo) of the Todo deleteTodo gave
ApiRestore(via) ==
    /\ ret.todo # NoRow
    /\ store[ret.id] = NoRow
    /\ store' = [store EXCEPT ![ret.id] = RestoreRow(Sent(via, ret.todo))]
    /\ ret' = [ret EXCEPT !.via = via]
    /\ UNCHANGED <<ipcVars, moreVars, ledger, recorded, kept, popped, pops, snaps, lists, exit>>

NextRestore ==
    \/ \E via \in Vias, listId \in ListIds \cup {""}, text \in Texts, f \in ApiFields :
          ApiAdd(via, listId, text, f)
    \/ \E via \in Vias : ApiDelete(via)
    \/ \E via \in Vias : ApiRestore(via)

SpecRestore == InitLedger /\ [][NextRestore]_vars

NextRedo ==
    \/ \E via \in Vias : CmdAdd(via, "L", "t", NoRow)
    \/ \E via \in Vias, t \in TodoIds, done \in {"true", "false"} : CmdDone(via, t, done)
    \/ \E via \in Vias, t \in TodoIds : CmdDelete(via, t)
    \/ \E via \in Vias, count \in {1, 2} : CmdUndo(via, count)

SpecRedo == InitLedger /\ [][NextRedo]_vars

\* C22: an undo leaves the ledger as it was less the entries it popped and
\* records nothing; no popped entry stays in the ledger, and an entry enters
\* the ledger only when a command records it as new.
C22_NoRedo ==
    [][/\ pops' # pops =>
            /\ recorded' = recorded
            /\ ledger' = SubSeq(ledger, 1, Len(ledger) - Len(popped'.entries))
            /\ \A i \in 1..Len(popped'.entries), j \in 1..Len(ledger') :
                  ledger'[j] # popped'.entries[i]
       /\ \A j \in 1..Len(ledger') :
            \/ \E i \in 1..Len(ledger) : ledger[i] = ledger'[j]
            \/ pops' = pops /\ recorded' = recorded + 1 /\ ledger'[j].n = recorded']_vars

\* An undo popped an entry, and a command has recorded a new one since.
C22_Witness ==
    /\ popped.entries # <<>>
    /\ ledger # <<>>
    /\ ledger[Len(ledger)].n > popped.entries[1].n

\* ------------------------------------- two processes at the ledger file
\* the history object a process holds between loadHistory and saveHistory
HistoryReread(p) == ledger
History(p) == procs[p].history

\* loadHistory in recordUndo or popUndoEntries: the whole file is read
RaceLoad(p, op) ==
    /\ procs[p].pc = "idle"
    /\ IF op = "recordUndo" THEN recorded < MaxCmds ELSE pops < MaxPops
    /\ procs' = [procs EXCEPT ![p] = [pc |-> "loaded", op |-> op, history |-> ledger]]
    /\ UNCHANGED <<ipcVars, appVars, command, api, inbox, running, served, reader, applied>>

\* push, prune and saveHistory in recordUndo: the whole file is written
RaceRecord(p) ==
    /\ procs[p].pc = "loaded" /\ procs[p].op = "recordUndo"
    /\ ledger' = Prune(Append(History(p), Entry(recorded + 1, NoAction)))
    /\ recorded' = recorded + 1
    /\ kept' = Append(kept, Entry(recorded + 1, NoAction))
    /\ procs' = [procs EXCEPT ![p].pc = "idle"]
    /\ UNCHANGED <<ipcVars, popped, pops, store, snaps, ret, lists, exit, command, api, inbox, running, served, reader, applied>>

\* pop and saveHistory in popUndoEntries(1)
RacePop(p) ==
    /\ procs[p].pc = "loaded" /\ procs[p].op = "popUndoEntries"
    /\ ledger' = Remaining(History(p), 1)
    /\ popped' = [count |-> 1, entries |-> Popped(History(p), 1)]
    /\ pops' = pops + 1
    /\ kept' = SelectSeq(kept, LAMBDA e : \A i \in 1..Len(popped'.entries) :
                                             popped'.entries[i] # e)
    /\ procs' = [procs EXCEPT ![p].pc = "idle"]
    /\ UNCHANGED <<ipcVars, recorded, store, snaps, ret, lists, exit, command, api, inbox, running, served, reader, applied>>

NextRace ==
    \/ \E p \in Procs, op \in {"recordUndo", "popUndoEntries"} : RaceLoad(p, op)
    \/ \E p \in Procs : RaceRecord(p)
    \/ \E p \in Procs : RacePop(p)

SpecRace == InitLedger /\ [][NextRace]_vars

\* ------------------------------------------------------------------ C23
\* C23: a process writes back what it read with its own change and nothing
\* else: whatever another process has put in the file since that read is not
\* in the file after the write. Nothing stops a process from reading while
\* another is between its read and its write, so an entry one process
\* appended can be missing from the ledger once both are done.
C23_LostUpdate ==
    [][\A p \in Procs :
          (procs[p].pc = "loaded" /\ procs'[p].pc = "idle") =>
              \A i \in 1..Len(ledger) :
                  (\A j \in 1..Len(procs[p].history) : procs[p].history[j] # ledger[i])
                      => \A j \in 1..Len(ledger') : ledger'[j] # ledger[i]]_vars

\* Both processes are done, nothing was popped or pruned, and an entry that
\* was appended is not in the ledger.
C23_Witness ==
    /\ \A p \in Procs : procs[p].pc = "idle" /\ procs[p].op = "recordUndo"
    /\ pops = 0 /\ recorded < MAX_ENTRIES
    /\ \E i \in 1..Len(kept) : \A j \in 1..Len(ledger) : ledger[j] # kept[i]

\* ------------------------------------------- getClient and one command
\* index.tsx: a command's getData asks getClient() for a store client, awaits
\* one store operation on it, records the inverse and disconnects.

\* TttClient.connect(): resolves once the WebSocket is open and synced, or
\* rejects with one of its three errors
DirectErrors == {"Not logged in", "WebSocket connection failed", "Connection timeout"}
DirectOutcomes == {"open"} \cup DirectErrors

\* the catch clause of getClient: no binding, no condition
CatchesNotRunning(e) == e = "Daemon is not running"
Catches(e) == TRUE

\* getClient(): await daemon.connect() resolved, return daemon
GetClientReturn(c) ==
    /\ command[c].pc = "getClient"
    /\ cst[c].pc = "done"
    /\ command' = [command EXCEPT ![c].pc = "ready", ![c].client = "daemon"]
    /\ UNCHANGED <<ipcVars, appVars, procs, api, inbox, running, served, reader, applied>>

\* getClient(): await daemon.connect() rejected; the catch makes a TttClient
\* and awaits its connect(), whose rejection is getClient's own
GetClientCatch(c) ==
    /\ command[c].pc = "getClient"
    /\ cst[c].pc = "failed"
    /\ IF Catches(cst[c].err)
       THEN \E o \in DirectOutcomes :
               command' = [command EXCEPT ![c].direct = @ + 1,
                                  ![c].client = IF o = "open" THEN "direct" ELSE Undef,
                                  ![c].pc = IF o = "open" THEN "ready" ELSE "failed",
                                  ![c].err = IF o = "open" THEN Undef ELSE o]
       ELSE command' = [command EXCEPT ![c].pc = "failed", ![c].err = cst[c].err]
    /\ UNCHANGED <<ipcVars, appVars, procs, api, inbox, running, served, reader, applied>>

\* todo done: recordMarkDone(previousTodo) and client.disconnect() once the
\* store operation has resolved; prev is the done flag of the Todo returned
CmdFinish(c, prev) ==
    /\ recorded < MaxCmds
    /\ RecordUndo(Action("restoreFields", 1, NoRow, [NoRow EXCEPT !.done = prev]))
    /\ exit' = [cmd |-> "todo done", ok |-> TRUE]
    /\ IF command[c].client = "daemon" /\ sock[c] # 0
       THEN /\ conns' = Destroy(sock[c])
            /\ sock' = [sock EXCEPT ![c] = 0]
       ELSE UNCHANGED <<conns, sock>>

\* todo done on the daemon proxy: client.markTodoDone(id) is call()
CmdCall(c) ==
    /\ command[c].pc = "ready" /\ command[c].client = "daemon"
    /\ UserCalls < MaxCalls
    /\ Call(c, "markTodoDone", TRUE)
    /\ command' = [command EXCEPT ![c].pc = "called", ![c].call = Len(calls) + 1]
    /\ UNCHANGED <<appVars, procs, api, inbox, running, served, reader, applied, handling, daemons, fileVars, storeOps,
                   cst, spawned, strays, peerLines>>

\* todo done on a TttClient: markTodoDone runs on the local store and the
\* rest of getData follows
CmdDirect(c) ==
    /\ command[c].pc = "ready" /\ command[c].client = "direct"
    /\ \E prev \in {"false", "true"} : CmdFinish(c, prev)
    /\ command' = [command EXCEPT ![c].pc = "done"]
    /\ UNCHANGED <<pending, calls, timers, settled, handling, daemons, fileVars, storeOps,
                   cst, spawned, strays, peerLines, popped, pops, store, snaps, ret, lists,
                   procs, api, inbox, running, served, reader, applied>>

\* the awaited call rejected: no handler of index.tsx catches it, getData
\* rejects with the same error
RejectedFallsBack(m, e) ==
    [m EXCEPT !.pc = "done", !.client = "direct", !.direct = @ + 1]
Rejected(m, e) == [m EXCEPT !.pc = "failed", !.err = e]

\* the promise of the awaited call has settled: its first settlement counts
CmdSettled(c) ==
    /\ command[c].pc = "called"
    /\ settled[command[c].call] # <<>>
    /\ LET e == settled[command[c].call][1] IN
       IF e.kind = "resolve"
       THEN /\ \E prev \in {"false", "true"} : CmdFinish(c, prev)
            /\ command' = [command EXCEPT ![c].pc = "done"]
       ELSE /\ command' = [command EXCEPT ![c] = Rejected(@, e.err)]
            /\ exit' = [cmd |-> "todo done", ok |-> FALSE]
            /\ UNCHANGED <<ledger, recorded, kept, conns, sock>>
    /\ UNCHANGED <<pending, calls, timers, settled, handling, daemons, fileVars, storeOps,
                   cst, spawned, strays, peerLines, popped, pops, store, snaps, ret, lists,
                   procs, api, inbox, running, served, reader, applied>>

\* one command of client A, the daemon it finds or spawns, and the signals
\* that end a daemon
NextGet ==
    \/ ConnectBegin("A", TRUE)
    \/ FirstConnect("A")
    \/ IssuePing("A")
    \/ PingDone("A")
    \/ ShutdownDone("A")
    \/ DelayDone("A")
    \/ SpawnReady("A")
    \/ SpawnTimeout("A")
    \/ SpawnExit("A")
    \/ SpawnError("A")
    \/ Reconnect("A")
    \/ GetClientReturn("A")
    \/ GetClientCatch("A")
    \/ CmdCall("A")
    \/ CmdDirect("A")
    \/ CmdSettled("A")
    \/ \E d \in DaemonIds : DaemonCleanup(d)
    \/ \E d \in DaemonIds, ok \in BOOLEAN : DaemonRemote(d, ok)
    \/ \E d \in DaemonIds : DaemonListen(d)
    \/ \E d \in DaemonIds : Signal(d)
    \/ \E k \in ConnIds : ClientData(k)
    \/ \E id \in CallIds : RequestTimeout(id)
    \/ \E k \in ConnIds : ClientClose(k)
    \/ \E k \in ConnIds : \E n \in 1..Len(conns[k].up) : DaemonData(k, n)
    \/ \E h \in handling : DaemonReply(h)
    \/ \E k \in ConnIds : DaemonConnEnd(k)
    \/ \E d \in DaemonIds : ShutdownTimer(d)

SpecGet == InitConn /\ [][NextGet]_vars

\* ------------------------------------------------------------------ C24
\* the store operation of c's command was rejected by the close handler
ClosedMidFlight(c) ==
    /\ command[c].call # 0
    /\ settled[command[c].call] # <<>>
    /\ settled[command[c].call][1].src = "close"

\* requests the proxy has written for the command's store operation
Requests(c) ==
    Cardinality({i \in 1..Len(calls) : calls[i].client = c /\ calls[i].user})

\* C24 as stated: when the store operation a command issued through the
\* daemon proxy is rejected because the connection closed mid-flight, the
\* proxy has made no second request and the command has gone to a direct
\* client to carry the operation out.
C24_FallsBack ==
    \A c \in Clients :
        (ClosedMidFlight(c) /\ command[c].pc # "called") =>
            /\ Requests(c) = 1
            /\ command[c].direct >= 1

\* C24 amended: when the store operation a command issued through the daemon
\* proxy is rejected because the connection closed mid-flight, the proxy
\* makes no second request and the command does not fall back either: it
\* fails with "Daemon connection closed", still holding the proxy, no direct
\* connection attempted and nothing recorded.
C24_NoFallback ==
    \A c \in Clients :
        ClosedMidFlight(c) =>
            /\ Requests(c) = 1
            /\ Len(settled[command[c].call]) = 1
            /\ command[c].direct = 0
            /\ command[c].client = "daemon"
            /\ command[c].pc # "called" =>
                  /\ command[c].pc = "failed"
                  /\ command[c].err = "Daemon connection closed"
                  /\ exit = [cmd |-> "todo done", ok |-> FALSE]
                  /\ recorded = 0

C24_Witness ==
    /\ ClosedMidFlight("A")
    /\ command["A"].pc = "failed"
    /\ calls[command["A"].call].conn # 0

\* ------------------------------------------------------------------ C25
\* C25: getClient returns the daemon proxy whenever the proxy's connect
\* succeeded and makes no direct attempt then; when the proxy's connect
\* failed, whatever the error, it has made exactly one direct connection
\* attempt and returns that client, and getClient fails only with the error
\* of a direct connection that failed too.
C25_DaemonFirst ==
    \A c \in Clients :
        /\ command[c].direct <= 1
        /\ command[c].direct = 1 => cst[c].pc = "failed"
        /\ command[c].pc # "getClient" =>
              /\ cst[c].pc \in {"done", "failed"}
              /\ cst[c].pc = "done" => command[c].client = "daemon" /\ command[c].direct = 0
              /\ cst[c].pc = "failed" =>
                    /\ command[c].direct = 1
                    /\ \/ command[c].client = "direct"
                       \/ /\ command[c].client = Undef
                          /\ command[c].pc = "failed"
                          /\ command[c].err \in DirectErrors

C25_Witness ==
    /\ cst["A"].pc = "failed" /\ cst["A"].err # "Daemon is not running"
    /\ command["A"].client = "direct"
    /\ command["A"].pc = "done"

\* ---------------------------------------------- calls on one TttClient
\* The operations of TttClient called one after another on one store, each
\* call remembered with its arguments, what it returned and the tables as
\* they were when it was made.
Called(op, id, fields, threw, prev) ==
    /\ api.n < MaxOps
    /\ api' = [n |-> api.n + 1, op |-> op, id |-> id, fields |-> fields, threw |-> threw,
               prev |-> prev, store0 |-> store, lists0 |-> lists]
    /\ UNCHANGED <<ipcVars, procs, command, inbox, running, served, reader, applied, ledger, recorded, kept, popped, pops,
                   snaps, ret, exit>>

\* throw new Error(`Todo not found: ...`), `List not found: ...`
Throws(op, id, fields) ==
    /\ Called(op, id, fields, TRUE, <<>>)
    /\ UNCHANGED <<store, lists>>

\* the fields objects of the calls: a key may be present with the value
\* undefined
TodoUpdates ==
    {[NoRow EXCEPT !.text = "u"], [NoRow EXCEPT !.done = "true"],
     [NoRow EXCEPT !.notes = "", !.fiveStarRating = "3"],
     [NoRow EXCEPT !.notes = Undefined, !.text = "u"],
     [NoRow EXCEPT !.type = Undefined]}
ListUpdates ==
    {[NoList EXCEPT !.name = "m"], [NoList EXCEPT !.purpose = "p", !.icon = "j"],
     [NoList EXCEPT !.icon = Undefined, !.name = "m"]}
BatchUpdates ==
    {<<Item(t, f)>> : t \in TodoIds,
                      f \in {[NoRow EXCEPT !.done = "true"],
                              [NoRow EXCEPT !.notes = Undefined, !.text = "u"]}}
       \cup {<<Item(t, [NoRow EXCEPT !.notes = "x"]), Item(u, [NoRow EXCEPT !.text = "v"])>> :
                t \in TodoIds, u \in TodoIds}

\* addTodo(listId, text, fields)
ApiAddTodo(listId, text, f) ==
    /\ FreshTodo # 0
    /\ store' = [store EXCEPT ![FreshTodo] = AddRow(listId, text, f)]
    /\ Called("addTodo", FreshTodo, f, FALSE, <<>>)
    /\ UNCHANGED lists

\* updateTodo(todoId, fields)
ApiUpdateTodo(t, f) ==
    IF NotFound(store[t]) THEN Throws("updateTodo", t, f) ELSE
    /\ store' = [store EXCEPT ![t] = UpdateRow(@, f)]
    /\ Called("updateTodo", t, f, FALSE, PreviousFields(store[t], f))
    /\ UNCHANGED lists

\* deleteTodo(todoId)
ApiDeleteTodo(t) ==
    IF NotFound(store[t]) THEN Throws("deleteTodo", t, NoRow) ELSE
    /\ store' = [store EXCEPT ![t] = NoRow]
    /\ Called("deleteTodo", t, NoRow, FALSE, TodoOf(store[t]))
    /\ UNCHANGED lists

\* updateList(listId, fields)
ApiUpdateList(l, f) ==
    IF NotFound(lists[l]) THEN Throws("updateList", l, f) ELSE
    /\ lists' = [lists EXCEPT ![l] = UpdateRow(@, f)]
    /\ Called("updateList", l, f, FALSE, PreviousFields(lists[l], f))
    /\ UNCHANGED store

\* deleteList(listId)
ApiDeleteList(l) ==
    IF NotFound(lists[l]) THEN Throws("deleteList", l, NoList) ELSE
    /\ lists' = [lists EXCEPT ![l] = NoList]
    /\ Called("deleteList", l, NoList, FALSE, ListOf(lists[l]))
    /\ UNCHANGED store

\* batchUpdateTodos(updates)
ApiBatchUpdate(items) ==
    /\ store' = BatchUpdate(store, items)
    /\ Called("batchUpdateTodos", 0, items, FALSE, BatchResults(store, items))
    /\ UNCHANGED lists

NextApi ==
    \/ \E l \in ListIds, f \in AddFields : ApiAddTodo(l, "t", f)
    \/ \E t \in TodoIds, f \in TodoUpdates : ApiUpdateTodo(t, f)
    \/ \E t \in TodoIds : ApiDeleteTodo(t)
    \/ \E l \in ListIds, f \in ListUpdates : ApiUpdateList(l, f)
    \/ \E l \in ListIds : ApiDeleteList(l)
    \/ \E items \in BatchUpdates : ApiBatchUpdate(items)

SpecApi == InitLedger /\ [][NextApi]_vars

\* ------------------------------------------------------------------ C26
\* C26: updateList, updateTodo, deleteList and deleteTodo called with an id
\* that the store does not hold fail with a not-found error and leave both
\* tables as they were.
C26_NotFound ==
    /\ api.op \in {"updateTodo", "deleteTodo"} =>
          (api.store0[api.id] = NoRow => api.threw /\ store = api.store0 /\ lists = api.lists0)
    /\ api.op \in {"updateList", "deleteList"} =>
          (api.lists0[api.id] = NoList => api.threw /\ store = api.store0 /\ lists = api.lists0)

\* ------------------------------------------------------------------ C27
\* what an update call must have returned and done to the row it names
UpdatedAsAsked(row0, row, f, prev) ==
    \A c \in DOMAIN row0 :
        /\ prev[c] # Undef <=> f[c] # Undef
        /\ f[c] # Undef => prev[c] = Get(row0[c])
        /\ f[c] \in {Undef, Undefined} => row[c] = row0[c]
        /\ f[c] \notin {Undef, Undefined} => row[c] = f[c]

\* C27: previousFields of updateTodo and of updateList has exactly the keys of
\* the fields supplied, each with the value its cell held before the call; no
\* cell outside those keys changes, no other row changes, and a supplied key
\* whose value is undefined leaves its cell as it was.
C27_PreviousFields ==
    /\ (api.op = "updateTodo" /\ ~api.threw) =>
          /\ UpdatedAsAsked(api.store0[api.id], store[api.id], api.fields, api.prev)
          /\ \A t \in TodoIds \ {api.id} : store[t] = api.store0[t]
          /\ lists = api.lists0
    /\ (api.op = "updateList" /\ ~api.threw) =>
          /\ UpdatedAsAsked(api.lists0[api.id], lists[api.id], api.fields, api.prev)
          /\ \A l \in ListIds \ {api.id} : lists[l] = api.lists0[l]
          /\ store = api.store0

\* updateTodo on a todo that was added, with text set and notes undefined:
\* the text changed, the notes stayed, both keys came back
C27_Witness ==
    /\ api.op = "updateTodo"
    /\ api.store0[api.id] # NoRow
    /\ api.fields.notes = Undefined /\ api.fields.text = "u"
    /\ api.prev.text = "t" /\ api.prev.notes = "x"
    /\ store[api.id].text = "u" /\ store[api.id].notes = "x"

\* ------------------------------------------------------------------ C28
\* the updates of a batch whose id the store held when the call was made
Present(items) == SelectSeq(items, LAMBDA u : api.store0[u.id] # NoRow)

\* C28: batchUpdateTodos creates no row for an id the store does not hold,
\* returns one result per update whose id it holds, in input order, and the
\* result of an id named once carries the values its cells held before the
\* call.
C28_SkipsAbsent ==
    api.op = "batchUpdateTodos" =>
        /\ ~api.threw
        /\ \A t \in TodoIds : api.store0[t] = NoRow => store[t] = NoRow
        /\ Len(api.prev) = Len(Present(api.fields))
        /\ \A i \in 1..Len(api.prev) :
              LET u == Present(api.fields)[i] IN
              /\ api.prev[i].id = u.id
              /\ Len(Present(api.fields)) = 1 =>
                    \A c \in Cells : u.fields[c] # Undef =>
                        api.prev[i].fields[c] = Get(api.store0[u.id][c])

\* ------------------------------------------- the daemon's store handlers
\* handleRequest on the daemon's one TttClient, with requests arriving on two
\* sockets. A store method is an async function without an await of its own:
\* its whole body runs inside the call, and the handler yields only at the
\* await of the promise the method returns.
Request(m, id, fields, items) == [m |-> m, id |-> id, fields |-> fields, items |-> items]

\* the steps of a store method, in program order: snap reads the row and
\* builds what the method returns, set, del and add write, read is getTodos
Op(k, id, fields) == [k |-> k, id |-> id, fields |-> fields]
RECURSIVE BatchOps(_, _)
BatchOps(m, items) ==
    IF items = <<>> THEN <<>>
    ELSE LET u == Head(items)
         IN (IF m = "batchUpdateTodos"
             THEN <<Op("snap", u.id, u.fields), Op("set", u.id, u.fields)>>
             ELSE IF m = "batchDeleteTodos" THEN <<Op("del", u.id, NoRow)>>
             ELSE <<Op("add", 0, u.fields)>>)
            \o BatchOps(m, Tail(items))

Batches == {"batchAddTodos", "batchUpdateTodos", "batchDeleteTodos"}
Undoable == {"updateTodo", "markTodoDone", "markTodoUndone", "deleteTodo", "batchUpdateTodos"}

\* markTodoDone, markTodoUndone: previousTodo is built, then setCell
MarkOpsWriteFirst(id, done) ==
    <<Op("set", id, [NoRow EXCEPT !.done = done]), Op("snapTodo", id, NoRow)>>
MarkOps(id, done) ==
    <<Op("snapTodo", id, NoRow), Op("set", id, [NoRow EXCEPT !.done = done])>>

Ops(req) ==
    IF req.m \in Batches THEN BatchOps(req.m, req.items)
    ELSE IF req.m = "updateTodo"
    THEN <<Op("snap", req.id, req.fields), Op("set", req.id, req.fields)>>
    ELSE IF req.m = "markTodoDone" THEN MarkOps(req.id, "true")
    ELSE IF req.m = "markTodoUndone" THEN MarkOps(req.id, "false")
    ELSE IF req.m = "deleteTodo"
    THEN <<Op("snapTodo", req.id, NoRow), Op("del", req.id, NoRow)>>
    ELSE <<Op("read", 0, NoRow)>>

\* the id addTodo and batchAddTodos generate
FreshIn(s) == IF \E t \in TodoIds : s[t] = NoRow
              THEN SeqMin({t \in TodoIds : s[t] = NoRow}) ELSE 0

\* one step of a method on the table s; h is the handler, of which pres
\* keeps the row each write found
ExecOp(s, h) ==
    LET o == Head(h.ops)
        row == IF o.id \in TodoIds THEN s[o.id] ELSE NoRow
        rest == [h EXCEPT !.ops = Tail(@)]
    IN IF o.k \in {"snap", "snapTodo"}
       THEN IF NotFound(row)
            THEN [s |-> s,
                  h |-> IF h.req.m \in Batches THEN [h EXCEPT !.ops = Tail(Tail(@))]
                        ELSE [h EXCEPT !.ops = <<>>, !.err = "Todo not found"]]
            ELSE [s |-> s,
                  h |-> [rest EXCEPT !.snaps =
                            Append(@, Item(o.id, IF o.k = "snapTodo" THEN TodoOf(row)
                                                 ELSE PreviousFields(row, o.fields)))]]
       ELSE IF o.k = "set"
       THEN [s |-> [s EXCEPT ![o.id] = UpdateRow(@, o.fields)],
             h |-> [rest EXCEPT !.pres = Append(@, Item(o.id, row))]]
       ELSE IF o.k = "del"
       THEN [s |-> [s EXCEPT ![o.id] = NoRow],
             h |-> [rest EXCEPT !.pres = Append(@, Item(o.id, row))]]
       ELSE IF o.k = "add"
       THEN [s |-> [s EXCEPT ![FreshIn(s)] = AddRow("L", "t", o.fields)],
             h |-> [rest EXCEPT !.snaps = Append(@, Item(FreshIn(s), NoRow)),
                                !.pres = Append(@, Item(FreshIn(s), NoRow))]]
       ELSE [s |-> s, h |-> [rest EXCEPT !.seen = Append(@, s)]]

RECURSIVE Exec(_, _, _)
Exec(s, h, n) ==
    IF n = 0 \/ h.ops = <<>> THEN [s |-> s, h |-> h]
    ELSE LET x == ExecOp(s, h) IN Exec(x.s, x.h, n - 1)

\* the steps a handler runs before it gives the event loop back
RunsOneStep(ops) == 1
RunsToYield(ops) == Len(ops)

\* what the client's requests are
StoreRequests ==
    {Request("updateTodo", t, f, <<>>) :
        t \in TodoIds, f \in {[NoRow EXCEPT !.text = "u"], [NoRow EXCEPT !.done = "true"]}}
    \cup {Request(m, t, NoRow, <<>>) :
             m \in {"markTodoDone", "markTodoUndone", "deleteTodo"}, t \in TodoIds}
    \cup {Request("batchUpdateTodos", 0, NoRow, items) :
             items \in {<<Item(1, [NoRow EXCEPT !.notes = "x"]),
                          Item(2, [NoRow EXCEPT !.notes = "x"])>>,
                        <<Item(1, [NoRow EXCEPT !.done = "true"]),
                          Item(1, [NoRow EXCEPT !.text = "v"])>>}}
    \cup {Request("batchAddTodos", 0, NoRow, <<Item(0, NoRow), Item(0, [NoRow EXCEPT !.notes = "x"])>>),
          Request("batchDeleteTodos", 0, NoRow, <<Item(1, NoRow), Item(2, NoRow)>>),
          Request("getTodos", 0, NoRow, <<>>)}

Received == Len(served) + Cardinality({k \in Sockets : Busy(running[k])})
               + Len(inbox[1]) + Len(inbox[2])

\* a request line arrives on socket k
StoreSend(k, req) ==
    /\ Received < MaxReqs
    /\ inbox' = [inbox EXCEPT ![k] = Append(@, req)]
    /\ UNCHANGED <<ipcVars, appVars, procs, command, api, running, served, reader, applied>>

\* ids batchAddTodos still needs
Adds(ops) == Len(SelectSeq(ops, LAMBDA o : o.k = "add"))
Free(s) == Cardinality({t \in TodoIds : s[t] = NoRow})

\* the event loop runs the handler of socket k: handleRequest of its next
\* line, or the rest of a handler that had yielded
HandleRequest(k) ==
    /\ Busy(running[k]) \/ inbox[k] # <<>>
    /\ LET h0 == IF Busy(running[k]) THEN running[k]
                 ELSE [Idle EXCEPT !.req = Head(inbox[k]), !.ops = Ops(Head(inbox[k]))]
           x == Exec(store, h0, RunsToYield(h0.ops))
       IN /\ Adds(h0.ops) <= Free(store)
          /\ store' = x.s
          /\ inbox' = IF Busy(running[k]) THEN inbox ELSE [inbox EXCEPT ![k] = Tail(@)]
          /\ IF x.h.ops = <<>>
             THEN /\ served' = Append(served, [x.h EXCEPT !.ops = Ops(x.h.req)])
                  /\ running' = [running EXCEPT ![k] = Idle]
             ELSE /\ running' = [running EXCEPT ![k] = x.h]
                  /\ UNCHANGED served
    /\ UNCHANGED <<ipcVars, procs, command, api, reader, applied, ledger, recorded, kept, popped, pops, snaps,
                   ret, lists, exit>>

\* the daemon's store holds one todo that came with the first sync
InitStore ==
    /\ InitIdle
    /\ ledger = <<>>
    /\ recorded = 0
    /\ kept = <<>>
    /\ popped = [count |-> 0, entries |-> <<>>]
    /\ pops = 0
    /\ store = [t \in TodoIds |-> IF t = 1 THEN AddRow("L", "t", NoRow) ELSE NoRow]
    /\ snaps = <<>>
    /\ ret = [via |-> Undef, id |-> 0, todo |-> NoRow]
    /\ lists = [l \in ListIds |-> IF l = "L" THEN CreateRow("l", NoList) ELSE NoList]
    /\ exit = [cmd |-> Undef, ok |-> TRUE]
    /\ procs = [p \in Procs |-> [pc |-> "idle", op |-> Undef, history |-> <<>>]]
    /\ command = [c \in Clients |-> NewCommand]
    /\ api = NoCall
    /\ inbox = [k \in Sockets |-> <<>>]
    /\ running = [k \in Sockets |-> Idle]
    /\ served = <<>>
    /\ applied = <<>>
    /\ reader = NoReader

NextStore ==
    \/ \E k \in Sockets, req \in StoreRequests : StoreSend(k, req)
    \/ \E k \in Sockets : HandleRequest(k)

SpecStore == InitStore /\ [][NextStore]_vars

\* ------------------------------------------------------------------ C29
\* writes of a handler's method that have been made, and that are to come
Written(h) == Len(h.pres)
ToWrite(h) == Len(SelectSeq(h.ops, LAMBDA o : o.k \in {"set", "del", "add"}))

WriteFields(e, i) ==
    SelectSeq(e.ops, LAMBDA o : o.k \in {"set", "del"})[i].fields

\* C30: every update, mark done, mark undone, delete and batch update the
\* daemon has served, with requests of two clients interleaved, returned for
\* each write a snapshot equal to what the row held when that write was made:
\* the whole Todo for mark done, mark undone and delete, the prior values of
\* the supplied keys for the updates.
C30_SnapshotBeforeWrite ==
    \A n \in 1..Len(served) :
        LET e == served[n] IN
        (e.req.m \in Undoable /\ e.err = Undef) =>
            /\ Len(e.snaps) = Len(e.pres)
            /\ \A i \in 1..Len(e.pres) :
                  /\ e.snaps[i].id = e.pres[i].id
                  /\ e.snaps[i].fields =
                        IF e.req.m \in {"updateTodo", "batchUpdateTodos"}
                        THEN PreviousFields(e.pres[i].fields, WriteFields(e, i))
                        ELSE TodoOf(e.pres[i].fields)

\* two clients each marked the same todo done and undone: the second
\* handler's snapshot shows the first one's write
C30_Witness ==
    /\ Len(served) = 2
    /\ served[1].req = Request("markTodoDone", 1, NoRow, <<>>)
    /\ served[2].req = Request("markTodoUndone", 1, NoRow, <<>>)
    /\ served[2].snaps[1].fields.done = "true"
    /\ store[1].done = "false"

\* ------------------------------------------ pipelined requests, two sockets
\* Two raw peers are connected to one running daemon; each writes request
\* lines without waiting for the responses and leaves the responses unread.
\* A request's id names the socket it is written on and its place among the
\* lines written.
PipeId(k, n) == 10 * k + n
PipeConn(id) == id \div 10

InitPipe ==
    /\ InitApp
    /\ sock = [c \in Clients |-> 0]
    /\ pending = [c \in Clients |-> {}]
    /\ calls = <<>>
    /\ timers = {}
    /\ settled = [i \in CallIds |-> <<>>]
    /\ conns = [k \in ConnIds |->
                  IF k \in {1, 2}
                  THEN [client |-> "peer", daemon |-> 1, cend |-> "open",
                        dend |-> "open", up |-> <<>>, down |-> <<>>]
                  ELSE NoConn]
    /\ handling = {}
    /\ daemons = [d \in DaemonIds |->
                    IF d = 1 THEN RunningDaemon(CLI_VERSION) ELSE NoDaemon]
    /\ sockFile = 1 /\ pidFile = 1 /\ verFile = 1
    /\ storeOps = 0
    /\ cst = [c \in Clients |-> NewClient]
    /\ spawned = [c \in Clients |-> {}]
    /\ strays = 0
    /\ peerLines = <<>>

\* one more line on socket k: a request, or a line that is no JSON
PipeSend(k) ==
    /\ conns[k].client = "peer" /\ conns[k].cend = "open"
    /\ Len(peerLines) < MaxPeerLines
    /\ \E line \in {ReqLine(PipeId(k, Len(peerLines) + 1), m) : m \in {"getLists", "bogus"}}
                    \cup {BadLine} :
          /\ conns' = [conns EXCEPT ![k].up = Append(@, line)]
          /\ peerLines' = Append(peerLines, line)
    /\ UNCHANGED <<moreVars, appVars, clientVars, handling, daemons, fileVars, storeOps, cst,
                   spawned, strays>>

\* the peer ends its socket
PipeClose(k) ==
    /\ conns[k].client = "peer" /\ conns[k].cend = "open"
    /\ conns' = Destroy(k)
    /\ UNCHANGED <<moreVars, appVars, clientVars, handling, daemons, fileVars, storeOps, cst,
                   spawned, strays, peerLines>>

NextPipe ==
    \/ \E k \in ConnIds : PipeSend(k)
    \/ \E k \in ConnIds : PipeClose(k)
    \/ \E k \in ConnIds : \E n \in 1..Len(conns[k].up) : DaemonData(k, n)
    \/ \E h \in handling : DaemonReply(h)
    \/ \E k \in ConnIds : DaemonConnEnd(k)

SpecPipe == InitPipe /\ [][NextPipe]_vars

\* ------------------------------------------------------------------ C31
\* the requests written so far, the response lines a socket holds for one,
\* and the handlers still running for it
PipeRequests == {peerLines[i].id : i \in {j \in 1..Len(peerLines) : peerLines[j].t = "req"}}
PipeAnswers(k, id) == {j \in 1..Len(conns[k].down) : conns[k].down[j].for = id}
PipeHandlers(id) == {h \in handling : h.res.for = id}
PipeUnread(id) ==
    {j \in 1..Len(conns[PipeConn(id)].up) : conns[PipeConn(id)].up[j].id = id}

\* C31: of each request written on a socket, the daemon holds it unread, or
\* runs its one handler, or has written its one response, never two of these:
\* the response is written once, after the handler, with the request's id, on
\* the socket the request came in on and on no other; a request whose socket
\* closed first gets no response anywhere.
C31_OneResponse ==
    \A id \in PipeRequests :
        LET k == PipeConn(id) IN
        /\ \A k2 \in ConnIds \ {k} : PipeAnswers(k2, id) = {}
        /\ \A h \in PipeHandlers(id) : h.conn = k /\ h.res.id = id
        /\ \A j \in PipeAnswers(k, id) : conns[k].down[j].id = id
        /\ Cardinality(PipeAnswers(k, id)) + Cardinality(PipeHandlers(id))
              + Cardinality(PipeUnread(id)) <= 1
        /\ conns[k].cend = "open" =>
              Cardinality(PipeAnswers(k, id)) + Cardinality(PipeHandlers(id))
                 + Cardinality(PipeUnread(id)) = 1

\* two requests pipelined on socket 1 and one on socket 2: the second of
\* socket 1 was answered first, and each socket holds its own responses
C31_Witness ==
    /\ Len(conns[1].down) = 2 /\ Len(conns[2].down) = 1
    /\ conns[1].down[1].id > conns[1].down[2].id
    /\ PipeConn(conns[1].down[1].id) = 1 /\ PipeConn(conns[1].down[2].id) = 1
    /\ PipeConn(conns[2].down[1].id) = 2

\* --------------------------------------------- requests and the idle clock
\* A running daemon with one connection, on which requests of every kind
\* arrive while time passes.
IdleMethods == {"ping", "getLists", "bogus"}

\* requests sent while the clock runs
MaxIdleLines == 2

IdleSend(k) ==
    /\ conns[k].client = "peer" /\ conns[k].cend = "open"
    /\ Len(peerLines) < MaxIdleLines
    /\ \E m \in IdleMethods :
          /\ conns' = [conns EXCEPT ![k].up = Append(@, ReqLine(Len(peerLines) + 1, m))]
          /\ peerLines' = Append(peerLines, ReqLine(Len(peerLines) + 1, m))
    /\ UNCHANGED <<moreVars, appVars, clientVars, handling, daemons, fileVars, storeOps, cst,
                   spawned, strays>>

NextIdle ==
    \/ \E k \in ConnIds : IdleSend(k)
    \/ \E k \in ConnIds : \E n \in 1..Len(conns[k].up) : DaemonData(k, n)
    \/ \E h \in handling : DaemonReply(h)
    \/ \E d \in DaemonIds : IdleTick(d)

SpecIdle == InitLife /\ [][NextIdle]_vars

\* ------------------------------------------------------------------ C32
\* the step in which handleRequest starts for request lines just read
C32_Parses == handling' \ handling # {}

\* C32: a step in which the daemon parses a request, whatever its method, sets
\* the idle clock to zero; the clock otherwise only advances with time; and a
\* step in which the daemon exits for idleness is a periodic check made when
\* more than 30 minutes have passed since the clock was last zero.
C32_IdleReset ==
    [][\A d \in DaemonIds :
          /\ (C32_Parses /\ daemons[d].st = "ready") => daemons'[d].idle = 0
          /\ (daemons[d].st = "ready" /\ daemons'[d].st = "ready" /\ ~C32_Parses) =>
                daemons'[d].idle \in {daemons[d].idle, daemons[d].idle + 1}
          /\ (daemons[d].st = "ready" /\ daemons'[d].cause = "idle") =>
                /\ daemons[d].tick = CHECK_PERIOD - 1
                /\ daemons[d].idle + 1 > IDLE_TIMEOUT]_vars

\* an unknown method was answered after the daemon had been idle for a while,
\* and the daemon then ran for another 30 minutes before a check ended it
C32_Witness ==
    /\ daemons[1].st = "exited" /\ daemons[1].cause = "idle"
    /\ Len(peerLines) = 1 /\ peerLines[1].method = "bogus"
    /\ Len(conns[1].down) = 1

\* ------------------------------------------- the data handlers as readers
\* Both data handlers (handleConnection in the daemon, setupSocketHandlers in
\* the client) frame their input with the same statements: append
\* data.toString() to the buffer, then cut the buffer at each "\n" and skip
\* the lines that are blank after trim(). What arrives is bytes; the peer
\* wrote JSON.stringify(...) + "\n" as UTF-8, so the stream is well formed.
\* Bytes: "a" an ASCII character, "sp" a space, "nl" the newline, "hi" and "lo"
\* the first and second byte of a two-byte character.
MaxBytes == 5

Bytes == {"a", "sp", "nl", "hi", "lo"}

RECURSIVE WellFormed(_)
WellFormed(bs) ==
    IF bs = <<>> THEN TRUE
    ELSE IF Head(bs) = "lo" THEN FALSE
    ELSE IF Head(bs) = "hi"
         THEN Len(bs) >= 2 /\ bs[2] = "lo" /\ WellFormed(Tail(Tail(bs)))
    ELSE WellFormed(Tail(bs))

Streams == {bs \in UNION {[1..n -> Bytes] : n \in 1..MaxBytes} : WellFormed(bs)}

\* Buffer.prototype.toString() on one chunk: a complete two-byte sequence is
\* its character "ch"; a first byte with nothing after it in this chunk, and a
\* second byte with no first byte before it in this chunk, each decode to the
\* replacement character "fffd"
RECURSIVE DataToString(_)
DataToString(bs) ==
    IF bs = <<>> THEN <<>>
    ELSE IF Head(bs) = "hi" /\ Len(bs) >= 2 /\ bs[2] = "lo"
         THEN <<"ch">> \o DataToString(Tail(Tail(bs)))
    ELSE IF Head(bs) \in {"hi", "lo"} THEN <<"fffd">> \o DataToString(Tail(bs))
    ELSE <<Head(bs)>> \o DataToString(Tail(bs))

\* buffer.indexOf("\n"): 0 when there is none
RECURSIVE IndexOf(_, _)
IndexOf(cs, i) ==
    IF i > Len(cs) THEN 0 ELSE IF cs[i] = "nl" THEN i ELSE IndexOf(cs, i + 1)

\* !line.trim()
BlankText(line) == \A i \in 1..Len(line) : line[i] = "sp"

\* the while loop of the data handler: the lines it hands on, and the buffer
\* it keeps
RECURSIVE Drain(_, _)
Drain(buf, out) ==
    LET n == IndexOf(buf, 1)
        line == SubSeq(buf, 1, n - 1)
        rest == SubSeq(buf, n + 1, Len(buf))
    IN IF n = 0 THEN [buffer |-> buf, lines |-> out]
       ELSE Drain(rest, IF BlankText(line) THEN out ELSE Append(out, line))

InitReader ==
    /\ InitIdle /\ InitTables
    /\ \E bs \in Streams : reader = [wire |-> bs, sent |-> bs, buffer |-> <<>>, lines |-> <<>>]

\* one "data" event carrying the next n bytes of the stream
OnData(n) ==
    /\ n \in 1..Len(reader.wire)
    /\ LET text == reader.buffer \o DataToString(SubSeq(reader.wire, 1, n))
           d == Drain(text, reader.lines)
       IN reader' = [reader EXCEPT !.wire = SubSeq(@, n + 1, Len(@)),
                                   !.buffer = d.buffer, !.lines = d.lines]
    /\ UNCHANGED <<ipcVars, appVars, procs, command, api, inbox, running, served, applied>>

NextReader == \E n \in 1..MaxBytes : OnData(n)

SpecReader == InitReader /\ [][NextReader]_vars

\* ------------------------------------------------------------------ C33
\* the lines and the held partial line of the stream delivered as one chunk
OneChunk(bs) == Drain(DataToString(bs), <<>>)

\* C33 (as claimed): once the whole stream has arrived, the lines handed on
\* and the partial line held are those of the same stream delivered in a
\* single chunk, however it was split.
C33_ChunkIndependent ==
    reader.wire = <<>> =>
        /\ reader.lines = OneChunk(reader.sent).lines
        /\ reader.buffer = OneChunk(reader.sent).buffer

\* what does hold: a stream of one-byte characters is read the same way under
\* every split
C33_AsciiIndependent ==
    (reader.wire = <<>> /\ \A i \in 1..Len(reader.sent) : reader.sent[i] \notin {"hi", "lo"}) =>
        /\ reader.lines = OneChunk(reader.sent).lines
        /\ reader.buffer = OneChunk(reader.sent).buffer

\* ------------------------------------------------------------------ C34
\* C34 (as claimed): a connect() called with autoStart false has spawned no
\* daemon process, in whatever state and of whatever version it found the
\* daemon.
C34_NoSpawnWithoutAutoStart ==
    \A c \in Clients : (cst[c].pc # "idle" /\ ~cst[c].autoStart) => spawned[c] = {}

\* ------------------------------------------------------------------ C35
\* the "close" event of connection k is delivered in this step
C35_Closes(k) == conns[k].cend # "closed" /\ conns'[k].cend = "closed"

\* C35 (as claimed): the close event of a socket that is no longer the
\* client's current one leaves the client's reference to its current socket
\* in place and settles no call pending on that socket.
C35_StaleCloseHarmless ==
    [][\A k \in ConnIds :
          LET c == conns[k].client IN
          (C35_Closes(k) /\ c \in Clients /\ sock[c] \notin {0, k}) =>
              /\ sock'[c] = sock[c]
              /\ \A i \in pending[c] : calls[i].conn = sock[c] => settled'[i] = settled[i]]_vars

\* ------------------------------------------------------------------ C36
\* C36 (as claimed): a daemon that has signalled readiness and has not begun
\* shutdown is the one bound at the socket path, and the PID and version
\* files are its own, whatever other daemon processes start or stop.
C36_ReadyStaysReachable ==
    \A d \in DaemonIds :
        (daemons[d].st = "ready" /\ ~daemons[d].exitTimer) =>
            /\ sockFile = d
            /\ pidFile = d
            /\ verFile = d

\* ------------------------------------------------- an undo that fails
\* getData of the undo command when something after popUndoEntries rejects:
\* getClient() (no daemon and TttClient.connect rejects), with nothing
\* replayed, or the executeUndo after the first n entries (a call the daemon
\* does not answer, a connection that closes). The pop has been saved by then.
CmdUndoRejects(via, count, n) ==
    /\ pops < MaxPops
    /\ n \in 0..(Len(Popped(ledger, count)) - 1)
    /\ PopUndoEntries(count)
    /\ store' = Replay(store, SubSeq(Popped(ledger, count), 1, n), via)
    /\ lists' = ReplayLists(lists, SubSeq(Popped(ledger, count), 1, n), via)
    /\ snaps' = Remaining(snaps, count)
    /\ exit' = [cmd |-> "undo", ok |-> FALSE, applied |-> n]
    /\ UNCHANGED <<ipcVars, moreVars, recorded, ret>>

NextUndoFail ==
    \/ NextUndo
    \/ \E via \in Vias, count \in {1, 2}, n \in {0, 1} : CmdUndoRejects(via, count, n)

SpecUndoFail == InitLedger /\ [][NextUndoFail]_vars

\* ------------------------------------------------------------------ C37
\* C37 (as claimed): after an undo command that failed having popped
\* entries, every popped entry whose inverse action was not applied is still
\* in the ledger.
C37_UnappliedStay ==
    (exit.cmd = "undo" /\ ~exit.ok /\ popped.entries # <<>>) =>
        \A i \in (exit.applied + 1)..Len(popped.entries) :
            \E j \in 1..Len(ledger) : ledger[j] = popped.entries[i]

\* ------------------------------------------- lines that are no requests
\* One raw peer on one socket of a running daemon writes lines of every
\* kind: requests, text that is no JSON, blank lines, and JSON values that
\* are no request objects.
InitJunk ==
    /\ InitApp
    /\ sock = [c \in Clients |-> 0]
    /\ pending = [c \in Clients |-> {}]
    /\ calls = <<>>
    /\ timers = {}
    /\ settled = [i \in CallIds |-> <<>>]
    /\ conns = [k \in ConnIds |->
                  IF k = 1
                  THEN [client |-> "peer", daemon |-> 1, cend |-> "open",
                        dend |-> "open", up |-> <<>>, down |-> <<>>]
                  ELSE NoConn]
    /\ handling = {}
    /\ daemons = [d \in DaemonIds |->
                    IF d = 1 THEN RunningDaemon(CLI_VERSION) ELSE NoDaemon]
    /\ sockFile = 1 /\ pidFile = 1 /\ verFile = 1
    /\ storeOps = 0
    /\ cst = [c \in Clients |-> NewClient]
    /\ spawned = [c \in Clients |-> {}]
    /\ strays = 0
    /\ peerLines = <<>>

JunkLines(n) ==
    {ReqLine(n, "ping"), ReqLine(n, "bogus"), BadLine, BlankLine, ValueLine(n), NullLine(n)}

JunkSend(k) ==
    /\ conns[k].client = "peer" /\ conns[k].cend = "open" /\ conns[k].dend = "open"
    /\ Len(peerLines) < MaxPeerLines
    /\ \E line \in JunkLines(Len(peerLines) + 1) :
          /\ conns' = [conns EXCEPT ![k].up = Append(@, line)]
          /\ peerLines' = Append(peerLines, line)
    /\ UNCHANGED <<moreVars, appVars, clientVars, handling, daemons, fileVars, storeOps, cst,
                   spawned, strays>>

NextJunk ==
    \/ \E k \in ConnIds : JunkSend(k)
    \/ \E k \in ConnIds : \E n \in 1..Len(conns[k].up) : DaemonData(k, n)
    \/ \E h \in handling : DaemonReply(h)
    \/ \E h \in handling, dies \in BOOLEAN : DaemonRejection(h, dies)

SpecJunk == InitJunk /\ [][NextJunk]_vars

\* ------------------------------------------------------------------ C38
\* the lines of a sequence that are not blank
RECURSIVE NonBlank(_)
NonBlank(lines) ==
    IF lines = <<>> THEN 0
    ELSE (IF Head(lines).t = "blank" THEN 0 ELSE 1) + NonBlank(Tail(lines))

\* C38 (as claimed): the daemon keeps running, and of the non-blank lines
\* written on the connection each is still unread, or has its handler
\* running, or has its one response line on the connection.
C38_EveryLineAnswered ==
    /\ daemons[1].st = "ready"
    /\ Len(conns[1].down) + Cardinality(handling) + NonBlank(conns[1].up)
          = NonBlank(peerLines)

\* what does hold: a value on which .method reads as undefined is answered
\* with "Unknown method: undefined" under no id
C38_ValueAnswered ==
    \A j \in 1..Len(conns[1].down) :
        LET r == conns[1].down[j] IN
        (r.for # 0 /\ peerLines[r.for].t = "value") =>
            r.id = 0 /\ r.error = UnknownError(Undefined)

\* --------------------------------- two commands at the store and the ledger
\* Each CLI invocation is a process of its own: its getData awaits the store
\* operation, which the daemon applies, and calls recordUndo only once the
\* response has come back. Other processes run between the two.

\* const previousTodo = await client.markTodoDone(id) / markTodoUndone(id):
\* the daemon applies the mutation and the process holds the Todo returned
OrderMutate(p, t, done) ==
    /\ procs[p].pc = "idle"
    /\ Len(applied) < MaxCmds
    /\ store' = [store EXCEPT ![t].done = done]
    /\ applied' = Append(applied, [p |-> p, t |-> t, n |-> 0,
                                   prev |-> JsonRow(TodoOf(store[t]))])
    /\ procs' = [procs EXCEPT ![p] = [pc |-> "mutated",
                                      op |-> IF done = "true" THEN "todo done" ELSE "todo undone",
                                      history |-> <<>>]]
    /\ UNCHANGED <<ipcVars, ledger, recorded, kept, popped, pops, snaps, ret, lists, exit,
                   command, api, inbox, running, served, reader>>

\* the mutation a process has applied and not yet recorded
Unrecorded(p) == CHOOSE i \in 1..Len(applied) : applied[i].p = p /\ applied[i].n = 0

\* recordMarkDone(previousTodo) / recordMarkUndone(previousTodo), and the
\* command ends
OrderRecord(p) ==
    /\ procs[p].pc = "mutated"
    /\ LET i == Unrecorded(p) IN
       /\ RecordUndo(Action("restoreFields", applied[i].t, NoRow,
                            [NoRow EXCEPT !.done = Get(applied[i].prev.done)]))
       /\ applied' = [applied EXCEPT ![i].n = recorded + 1]
    /\ procs' = [procs EXCEPT ![p].pc = "idle"]
    /\ exit' = [cmd |-> procs[p].op, ok |-> TRUE]
    /\ UNCHANGED <<ipcVars, popped, pops, store, snaps, ret, lists,
                   command, api, inbox, running, served, reader>>

NextOrder ==
    \/ \E p \in Procs, t \in TodoIds, done \in {"true", "false"} : OrderMutate(p, t, done)
    \/ \E p \in Procs : OrderRecord(p)

SpecOrder == InitStore /\ [][NextOrder]_vars

\* ------------------------------------------------------------------ C39
\* C39 (as claimed): of two mutations of the same todo that both have their
\* undo entry, the one applied to the store first has the earlier entry.
C39_LedgerFollowsStore ==
    \A i \in 1..Len(applied), j \in 1..Len(applied) :
        (i < j /\ applied[i].t = applied[j].t /\ applied[i].n # 0 /\ applied[j].n # 0) =>
            applied[i].n < applied[j].n

\* ------------------------------------------------------------------ C40
\* C40 (as claimed): the daemon processes one connect() has spawned are at
\* most one.
C40_OneSpawn == \A c \in Clients : Cardinality(spawned[c]) <= 1

====
